---- MODULE Spec2Model ----
(***************************************************************************)
(* Email-triage assistant (finkraft-t13): rule engine, intent classifier   *)
(* normalisation, bulk ingestion, human decisions, re-evaluation, drafts.  *)
(*                                                                         *)
(* Conventions                                                             *)
(*   - a text (str) is a sequence of one-character strings; the absent     *)
(*     value None is the model value NoneVal;                              *)
(*   - a confidence (float) is an integer number of hundredths, so that    *)
(*     0.6 is 60, 0.75 is 75, 0.8 is 80 and 0.9 is 90;                     *)
(*   - a table of the relational store is the sequence of its rows in      *)
(*     insertion order, a row's id is its index, and "ORDER BY created_at  *)
(*     DESC ... first()" is the row with the largest index.                *)
(***************************************************************************)
EXTENDS Integers, Sequences, FiniteSets, TLC

VARIABLES
    text,          \* rule engine harness: the argument being built
    ruleOut,       \* rule engine harness: result of the last call, or NotRun
    response,      \* classifier harness: what the completion provider does
    intentOut,     \* classifier harness: <<outcome>> of the last get_intent call
    completion,    \* reply harness: what the completion provider does
    replyOut,      \* reply harness: <<outcome>> of the last generate_reply_draft call
    threads,       \* table email_threads
    messages,      \* table email_messages
    suggestions,   \* table ai_suggestions
    decisions,     \* table user_decisions
    drafts,        \* table email_drafts
    now,           \* datetime.utcnow(), advanced by every mark_draft_sent
    draft_for,     \* st.session_state: message ids m with a key draft_for_message_{m}
    pending_send,  \* draft whose Send click a second browser session is serving, or 0
    crashed,       \* the latest script run ended with an unhandled exception
    skip_log,      \* message ids the latest run logged as "Skipping re-evaluation"
    error_log,     \* upload positions the latest run logged as "Failed to persist"
    provided_required, \* suggestion ids whose flag provided_required_<id> is set
    last_upload,   \* name of the file the latest script run processed, or NoUpload
    thread_args,   \* single-thread harness: the positional arguments of the call
    thread_out,    \* single-thread harness: <<outcome>> of the last call
    runs           \* per browser session: where its process_email_threads run stands

ruleVars == <<text, ruleOut>>
intentVars == <<response, intentOut>>
replyVars == <<completion, replyOut>>
storeVars == <<threads, messages, suggestions, decisions, drafts, now>>
uiVars ==
    <<draft_for, pending_send, crashed, skip_log, error_log, last_upload, provided_required>>
callVars == <<thread_args, thread_out>>
vars == <<text, ruleOut, response, intentOut, completion, replyOut, threads, messages,
          suggestions, decisions, drafts, now, draft_for, pending_send, crashed,
          skip_log, error_log, provided_required, last_upload, thread_args, thread_out,
          runs>>

NoneVal == "None"          \* None where a str is expected (scalar fields)
NoneText == <<"None">>     \* None where a text (sequence of characters) is expected
NotRun == <<"not-run">>

(***************************************************************************)
(* Text helpers: str.lower(), `k in txt`, truthiness of a str.             *)
(***************************************************************************)
UpperAlpha ==
    <<"A","B","C","D","E","F","G","H","I","J","K","L","M",
      "N","O","P","Q","R","S","T","U","V","W","X","Y","Z">>
LowerAlpha ==
    <<"a","b","c","d","e","f","g","h","i","j","k","l","m",
      "n","o","p","q","r","s","t","u","v","w","x","y","z">>

LowerChar(c) ==
    IF \E i \in 1..Len(UpperAlpha) : UpperAlpha[i] = c
    THEN LowerAlpha[CHOOSE i \in 1..Len(UpperAlpha) : UpperAlpha[i] = c]
    ELSE c

\* text.lower()
Lower(t) == [i \in 1..Len(t) |-> LowerChar(t[i])]

\* k in txt  (substring test)
In(k, txt) ==
    \E off \in 0..(Len(txt) - Len(k)) :
        \A j \in 1..Len(k) : txt[off + j] = k[j]

\* bool(text) for a str or None
Truthy(t) == t # NoneText /\ Len(t) > 0

WhitespaceChars == {" ", "\t", "\n"}
IsBlank(t) == t = NoneText \/ \A i \in 1..Len(t) : t[i] \in WhitespaceChars

(***************************************************************************)
(* core/rules.py: rule_based_intent_and_action                             *)
(***************************************************************************)
interested_keywords_with_empty ==
    << <<"i","n","t","e","r","e","s","t","e","d">>,
       <<"p","r","i","c","e">>,
       <<"p","r","i","c","i","n","g">>,
       <<"d","e","t","a","i","l","s">>,
       <<"n","e","e","d"," ","d","e","t","a","i","l","s">>,
       <<"c","a","n"," ","y","o","u"," ","s","h","a","r","e">>,
       <<>> >>

interested_keywords ==
    << <<"i","n","t","e","r","e","s","t","e","d">>,
       <<"p","r","i","c","e">>,
       <<"p","r","i","c","i","n","g">>,
       <<"d","e","t","a","i","l","s">>,
       <<"n","e","e","d"," ","d","e","t","a","i","l","s">>,
       <<"c","a","n"," ","y","o","u"," ","s","h","a","r","e">> >>

not_interested_keywords ==
    << <<"n","o","t"," ","i","n","t","e","r","e","s","t","e","d">>,
       <<"n","o"," ","t","h","a","n","k","s">>,
       <<"n","o"," ","t","h","a","n","k">>,
       <<"d","o","n","'","t"," ","n","e","e","d">>,
       <<"d","o"," ","n","o","t"," ","n","e","e","d">> >>

escalate_keywords ==
    << <<"m","a","n","a","g","e","r">>,
       <<"s","u","p","e","r","v","i","s","o","r">>,
       <<"e","s","c","a","l","a","t">>,
       <<"c","o","m","p","l","a","i","n">>,
       <<"u","r","g","e","n","t">> >>

RuleUnknown == <<"unknown", 0, "no-action">>
RuleInterested == <<"interested", 75, "send_pricing">>
RuleNotInterested == <<"not_interested", 80, "close_thread">>
RuleEscalate == <<"escalate", 90, "escalate_to_ops">>

\* for k in keywords: if k in txt: return ...   (TRUE when the loop returns)
RECURSIVE KeywordLoop(_, _, _)
KeywordLoop(keywords, i, txt) ==
    IF i > Len(keywords) THEN FALSE
    ELSE IF In(keywords[i], txt) THEN TRUE
    ELSE KeywordLoop(keywords, i + 1, txt)

rule_based_intent_and_action_swapped(t) ==
    IF ~Truthy(t) THEN RuleUnknown
    ELSE LET txt == Lower(t) IN
         IF KeywordLoop(escalate_keywords, 1, txt) THEN RuleEscalate
         ELSE IF KeywordLoop(not_interested_keywords, 1, txt) THEN RuleNotInterested
         ELSE IF KeywordLoop(interested_keywords, 1, txt) THEN RuleInterested
         ELSE RuleUnknown

rule_based_intent_and_action(t) ==
    IF ~Truthy(t) THEN RuleUnknown
    ELSE LET txt == Lower(t) IN
         IF KeywordLoop(interested_keywords, 1, txt) THEN RuleInterested
         ELSE IF KeywordLoop(not_interested_keywords, 1, txt) THEN RuleNotInterested
         ELSE IF KeywordLoop(escalate_keywords, 1, txt) THEN RuleEscalate
         ELSE RuleUnknown

(***************************************************************************)
(* ai/integrations.py: FieldSpec, IntentResponse, get_intent               *)
(*                                                                         *)
(* An Optional[List[...]] is a record [kind, items] with kind "none" or    *)
(* "list".  A dict received from the provider (a payload) has, per key,    *)
(* the value or the marker Missing; conf_ok says whether its confidence    *)
(* is present and numeric.  Its list-valued keys carry a kind:             *)
(*   "missing" (no key), "null", "specs" (list of {name, hint, required}   *)
(*   objects), "strings" (list of plain strings), "list" / "notlist" for   *)
(*   the legacy key required_fields.                                       *)
(***************************************************************************)
Missing == "MISSING"

NoList == [kind |-> "none", items |-> <<>>]
ListOf(items) == [kind |-> "list", items |-> items]

\* FieldSpec(name=..., hint=..., required=...)
FieldSpec(name, hint, required) == [name |-> name, hint |-> hint, required |-> required]

\* IntentResponse(intent="unknown", confidence=0.0)
SafeDefault ==
    [intent |-> "unknown", confidence |-> 0, suggested_action |-> "no-action",
     required_fields_customer |-> NoList, required_fields_responder |-> NoList,
     follow_up_question |-> NoneVal]

\* pydantic validation of IntentResponse(**d): does it succeed?
ValidFieldList(f) == f.kind \in {"missing", "null", "specs"}

Valid(d) ==
    /\ d.intent # Missing
    /\ d.conf_ok
    /\ ValidFieldList(d.required_fields_customer)
    /\ ValidFieldList(d.required_fields_responder)

\* the Optional[List[FieldSpec]] attribute built from a valid key
FieldListAttr(f) == IF f.kind = "specs" THEN ListOf(f.items) ELSE NoList

\* IntentResponse(**d) for a valid d; the key required_fields is not a field
\* of the model and is dropped
Model(d) ==
    [intent |-> d.intent,
     confidence |-> d.confidence,
     suggested_action |-> IF d.suggested_action = Missing THEN "no-action"
                          ELSE d.suggested_action,
     required_fields_customer |-> FieldListAttr(d.required_fields_customer),
     required_fields_responder |-> FieldListAttr(d.required_fields_responder),
     follow_up_question |-> IF d.follow_up_question = Missing THEN NoneVal
                            ELSE d.follow_up_question]

\* cust = [{"name": it, "hint": None, "required": True} for str items];
\* d["required_fields_customer"] = cust
NormalizeLegacy(d) ==
    LET strs == SelectSeq(d.required_fields.items, LAMBDA it : it.is_str) IN
    [d EXCEPT !.required_fields_customer =
        [kind |-> "specs",
         items |-> [i \in 1..Len(strs) |-> FieldSpec(strs[i].v, NoneVal, TRUE)]]]

\* control outcomes inside the try block of get_intent
Ret(v) == [tag |-> "return", val |-> v]
Raise == [tag |-> "raise", val |-> SafeDefault]
Fall == [tag |-> "next", val |-> SafeDefault]

\* try: return IntentResponse(**d)
\* except Exception: normalise the legacy required_fields list and retry;
\* `reraise` is the trailing `raise` that the copy for response.value lacks
ParseDict(d, reraise) ==
    IF Valid(d) THEN Ret(Model(d))
    ELSE IF d.required_fields.kind = "list"
         THEN LET n == NormalizeLegacy(d) IN
              IF Valid(n) THEN Ret(Model(n)) ELSE Raise
         ELSE IF reraise THEN Raise ELSE Fall

\* lines 70-87: the parsed value on response.value
ValueStage(resp) ==
    CASE resp.value.kind = "dict" -> ParseDict(resp.value.payload, FALSE)
      [] resp.value.kind = "model" -> Ret(resp.value.model)
      [] OTHER -> Fall

\* lines 131-147: search a {...} substring of the content and load it
RegexStage(c) ==
    CASE c.parse = "json" /\ c.is_dict -> ParseDict(c.payload, TRUE)
      [] c.parse = "embedded" -> ParseDict(c.payload, TRUE)
      [] c.parse = "embedded_bad" -> Raise
      [] OTHER -> Fall

\* lines 115-147: content is a str
StrStage(c) ==
    LET first == IF c.parse = "json" /\ c.is_dict
                 THEN ParseDict(c.payload, TRUE)
                 ELSE Raise
    IN IF first.tag = "return" THEN first ELSE RegexStage(c)

\* lines 89-147: response.choices[0]
ChoicesStage(resp) ==
    IF ~resp.has_choices THEN Fall
    ELSE LET content == resp.content IN
         CASE content.kind = "model" -> Ret(content.model)
           [] content.kind = "dict" -> ParseDict(content.payload, TRUE)
           [] content.kind = "str" -> StrStage(content)
           [] OTHER -> Fall

\* the body of the try block, lines 60-147
TryBlock(resp) ==
    IF resp.raises THEN Raise
    ELSE LET v == ValueStage(resp) IN
         IF v.tag # "next" THEN v ELSE ChoicesStage(resp)

\* a call: either it raised, or it returned val
Returned(v) == [raised |-> FALSE, val |-> v]
Raised == [raised |-> TRUE, val |-> SafeDefault]

\* lines 34-156: whatever the try block does, `except Exception` (line 149)
\* logs and falls through to the safe return of line 156 (preceded by the
\* variant without that handler)
get_intent_uncaught(resp) ==
    LET r == TryBlock(resp) IN
    CASE r.tag = "return" -> Returned(r.val)
      [] r.tag = "raise" -> Raised
      [] OTHER -> Returned(SafeDefault)

get_intent(resp) ==
    LET r == TryBlock(resp) IN
    IF r.tag = "return" THEN Returned(r.val) ELSE Returned(SafeDefault)

(***************************************************************************)
(* What the completion provider can send back.                             *)
(***************************************************************************)
FMissing == [kind |-> "missing", items |-> <<>>]
FSpecs(items) == [kind |-> "specs", items |-> items]
FStrings(items) == [kind |-> "strings", items |-> items]
LegacyList(items) == [kind |-> "list", items |-> items]
StrItem(v) == [is_str |-> TRUE, v |-> v]
NonStrItem(v) == [is_str |-> FALSE, v |-> v]

Payload(intent, confidence, conf_ok, action, rfc, rfr, legacy, follow_up) ==
    [intent |-> intent, confidence |-> confidence, conf_ok |-> conf_ok,
     suggested_action |-> action,
     required_fields_customer |-> rfc, required_fields_responder |-> rfr,
     required_fields |-> legacy, follow_up_question |-> follow_up]

P_interested ==
    Payload("interested", 70, TRUE, Missing, FMissing, FMissing, FMissing, Missing)
P_low ==
    Payload("billing_question", 50, TRUE, "no-action", FMissing, FMissing, FMissing, Missing)
P_action ==
    Payload("unknown", 0, TRUE, "ask_for_details", FMissing, FMissing, FMissing, Missing)
P_full ==
    Payload("escalation", 90, TRUE, "escalate_to_ops",
            FSpecs(<<FieldSpec("dates", "travel dates", TRUE)>>),
            FSpecs(<<FieldSpec("agent_notes", NoneVal, FALSE)>>),
            FMissing, "Which dates?")
P_legacy ==
    Payload("interested", 80, TRUE, Missing, FMissing, FMissing,
            LegacyList(<<StrItem("dates")>>), Missing)
P_nointent ==
    Payload(Missing, 70, TRUE, Missing, FMissing, FMissing, FMissing, Missing)
P_strings ==
    Payload("interested", 70, TRUE, Missing, FStrings(<<StrItem("dates")>>),
            FMissing, FMissing, Missing)
P_strings_legacy ==
    Payload("interested", 70, TRUE, Missing, FStrings(<<StrItem("dates")>>),
            FMissing, LegacyList(<<StrItem("dates"), NonStrItem("7")>>), Missing)
P_noconf_legacy ==
    Payload("interested", 0, FALSE, Missing, FMissing, FMissing,
            LegacyList(<<StrItem("dates")>>), Missing)

\* a confidence outside [0,1]: `confidence: float` accepts any number
P_over ==
    Payload("interested", 150, TRUE, Missing, FMissing, FMissing, FMissing, Missing)

Payloads ==
    { P_interested, P_low, P_action, P_full, P_legacy,
      P_nointent, P_strings, P_strings_legacy, P_noconf_legacy, P_over }

\* response.value
Value(kind, payload, model) == [kind |-> kind, payload |-> payload, model |-> model]
Values ==
    { Value("none", P_interested, SafeDefault),
      Value("other", P_interested, SafeDefault),
      Value("model", P_interested, Model(P_full)) }
    \cup { Value("dict", p, SafeDefault) : p \in Payloads }

\* response.choices[0].message.content
Content(kind, parse, is_dict, payload, model) ==
    [kind |-> kind, parse |-> parse, is_dict |-> is_dict,
     payload |-> payload, model |-> model]
Contents ==
    { Content("none", "n/a", FALSE, P_interested, SafeDefault),
      Content("other", "n/a", FALSE, P_interested, SafeDefault),
      Content("model", "n/a", FALSE, P_interested, Model(P_low)),
      Content("str", "json", FALSE, P_interested, SafeDefault),
      Content("str", "embedded_bad", FALSE, P_interested, SafeDefault),
      Content("str", "garbage", FALSE, P_interested, SafeDefault) }
    \cup { Content("dict", "n/a", TRUE, p, SafeDefault) : p \in Payloads }
    \cup { Content("str", "json", TRUE, p, SafeDefault) : p \in Payloads }
    \cup { Content("str", "embedded", TRUE, p, SafeDefault) : p \in Payloads }

NoContent == Content("none", "n/a", FALSE, P_interested, SafeDefault)
NoValue == Value("none", P_interested, SafeDefault)

\* the provider call raises (network error, provider exception)
ProviderRaises ==
    [raises |-> TRUE, value |-> NoValue, has_choices |-> FALSE, content |-> NoContent]
\* a response with neither value nor choices
EmptyResponse ==
    [raises |-> FALSE, value |-> NoValue, has_choices |-> FALSE, content |-> NoContent]

Responses ==
    { ProviderRaises }
    \cup { [raises |-> FALSE, value |-> v, has_choices |-> FALSE, content |-> NoContent] :
            v \in Values }
    \cup { [raises |-> FALSE, value |-> v, has_choices |-> TRUE, content |-> c] :
            v \in Values, c \in Contents }

(***************************************************************************)
(* db/models.py, db/crud.py: rows and queries.  Every query takes the      *)
(* tables it reads, so that it can be evaluated in the middle of a         *)
(* handler.  Id 0 stands for "no row" (first() returned None).             *)
(***************************************************************************)
EmailThread(subject, sender, recipient, body) ==
    [subject |-> subject, sender |-> sender, recipient |-> recipient,
     body |-> body, status |-> "pending"]

EmailMessage(thread_id, sender, recipient, body) ==
    [thread_id |-> thread_id, sender |-> sender, recipient |-> recipient, body |-> body]

AISuggestion(message_id, intent, confidence, suggested_action, rf, follow_up, raw) ==
    [message_id |-> message_id, intent |-> intent, confidence |-> confidence,
     suggested_action |-> suggested_action, required_fields |-> rf,
     follow_up_question |-> follow_up, raw_response |-> raw]

UserDecision(suggestion_id, user, decision) ==
    [suggestion_id |-> suggestion_id, user |-> user, decision |-> decision]

EmailDraft(thread_id, message_id, suggestion_id, status) ==
    [thread_id |-> thread_id, message_id |-> message_id,
     suggestion_id |-> suggestion_id, status |-> status, sent_at |-> 0]

\* the largest element of a finite set of row ids, 0 when it is empty
MaxId(S) == IF S = {} THEN 0 ELSE CHOOSE x \in S : \A y \in S : y <= x

\* get_thread_by_keys: .order_by(timestamp.desc()).first()
get_thread_by_keys(ths, subject, sender, recipient) ==
    MaxId({i \in 1..Len(ths) : /\ ths[i].subject = subject
                               /\ ths[i].sender = sender
                               /\ ths[i].recipient = recipient})

\* get_message_by_thread_and_body: .order_by(timestamp.desc()).first()
get_message_by_thread_and_body(msgs, thread_id, body) ==
    MaxId({i \in 1..Len(msgs) : msgs[i].thread_id = thread_id /\ msgs[i].body = body})

\* list_messages_for_thread: .order_by(timestamp.asc()).all(), as ids
list_messages_for_thread(msgs, thread_id) ==
    SelectSeq([i \in 1..Len(msgs) |-> i], LAMBDA i : msgs[i].thread_id = thread_id)

\* get_latest_suggestion_for_message: .order_by(created_at.desc()).first()
get_latest_suggestion_for_message(sugs, message_id) ==
    MaxId({i \in 1..Len(sugs) : sugs[i].message_id = message_id})

\* record_user_decision: one more row, committed after those in the table
record_user_decision(decs, suggestion_id, user, decision) ==
    Append(decs, UserDecision(suggestion_id, user, decision))

has_accepted_decision_for_suggestion(decs, suggestion_id) ==
    \E i \in 1..Len(decs) :
        decs[i].suggestion_id = suggestion_id /\ decs[i].decision = "accept"

\* has_accepted_decision_for_message: an 'accept' on the latest suggestion
\* (preceded by the variant that never finds one)
has_accepted_decision_for_message_unchecked(sugs, decs, message_id) == FALSE

has_accepted_decision_for_message(sugs, decs, message_id) ==
    LET latest_sug == get_latest_suggestion_for_message(sugs, message_id) IN
    IF latest_sug = 0 THEN FALSE
    ELSE has_accepted_decision_for_suggestion(decs, latest_sug)

has_sent_draft_for_message(drs, message_id) ==
    \E i \in 1..Len(drs) : drs[i].message_id = message_id /\ drs[i].status = "sent"

\* get_latest_draft_for_message: the newest draft still in status 'draft'
get_latest_draft_for_message(drs, message_id) ==
    MaxId({i \in 1..Len(drs) : drs[i].message_id = message_id /\ drs[i].status = "draft"})

\* list_draft: the drafts in status 'draft', as ids
list_draft(drs) == {i \in 1..Len(drs) : drs[i].status = "draft"}

\* mark_draft_sent: d.status = 'sent'; d.sent_at = utcnow()
\* (preceded by the variant that flips a sent draft back to 'draft')
mark_draft_sent_toggle(drs, draft_id, t) ==
    IF draft_id \notin 1..Len(drs) THEN drs
    ELSE IF drs[draft_id].status = "sent"
         THEN [drs EXCEPT ![draft_id].status = "draft"]
         ELSE [drs EXCEPT ![draft_id].status = "sent", ![draft_id].sent_at = t]

mark_draft_sent(drs, draft_id, t) ==
    IF draft_id \notin 1..Len(drs) THEN drs
    ELSE [drs EXCEPT ![draft_id].status = "sent", ![draft_id].sent_at = t]

(***************************************************************************)
(* create_ai_suggestion: required_fields is stored as text.  json.dumps    *)
(* succeeds unless a list holds FieldSpec objects, which are not JSON      *)
(* serialisable; the fallback then stores str(required_fields).            *)
(*   fmt "null"  - the column is NULL (required_fields was None)           *)
(*   fmt "json"  - JSON text of {"customer": ..., "responder": ...}        *)
(*   fmt "repr"  - Python repr text, which json.loads rejects              *)
(***************************************************************************)
StoredNull == [fmt |-> "null", customer |-> NoList, responder |-> NoList]

\* the column raw_response: NULL, or the text json.dumps writes for the
\* classifier's result: "null" for None, else the object of ai_resp.dict(),
\* of which intent, confidence and suggested_action are kept
RawNone == [kind |-> "none", intent |-> NoneVal, confidence |-> 0,
            suggested_action |-> NoneVal]
RawNull == [kind |-> "null", intent |-> NoneVal, confidence |-> 0,
            suggested_action |-> NoneVal]
RawResponse(ai) ==
    IF ai.raised THEN RawNull
    ELSE [kind |-> "json", intent |-> ai.val.intent, confidence |-> ai.val.confidence,
          suggested_action |-> ai.val.suggested_action]

HasObjects(l) == l.kind = "list" /\ Len(l.items) > 0

DumpRequiredFields(customer, responder) ==
    IF HasObjects(customer) \/ HasObjects(responder)
    THEN [fmt |-> "repr", customer |-> customer, responder |-> responder]
    ELSE [fmt |-> "json", customer |-> customer, responder |-> responder]

(***************************************************************************)
(* core/orchestrator.py: process_email_threads                             *)
(***************************************************************************)
\* the message bodies that occur in uploaded documents
B_pricing ==
    <<"C","a","n"," ","y","o","u"," ","s","h","a","r","e"," ",
      "p","r","i","c","i","n","g","?">>
B_hi == <<"h","i">>
B_nothanks == <<"N","o"," ","t","h","a","n","k","s">>
Bodies == {B_pricing, B_hi, B_nothanks}

\* rule_based_intent_and_action is pure: its results on the bodies, computed once
RuleResults == [b \in Bodies |-> rule_based_intent_and_action(b)]

\* str.strip() of an action label is empty
BlankLabels == {"", " "}

\* lines 178-185: is the classifier's suggested_action used verbatim?
\* (preceded by the variant that never uses it)
UsableAction_never(ai_suggested_action) == FALSE

UsableAction(ai_suggested_action) ==
    /\ ai_suggested_action # NoneVal
    /\ ai_suggested_action # ""
    /\ ai_suggested_action \notin BlankLabels
    /\ ai_suggested_action # "no-action"

\* lines 198-207: the intent-to-action table (preceded by the two-entry
\* table of the Re-evaluate buttons)
IntentToAction_short(intent) ==
    CASE intent = "interested" -> "send_pricing"
      [] intent = "not_interested" -> "close_thread"
      [] OTHER -> "no-action"

IntentToAction(intent) ==
    CASE intent = "interested" -> "send_pricing"
      [] intent = "not_interested" -> "close_thread"
      [] intent \in {"cancel_request", "cancel_booking_and_request_refund"} ->
            "start_cancellation_flow"
      [] intent \in {"escalation", "request_escalation_to_manager"} ->
            "escalate_to_manager"
      [] intent \in {"request_group_availability_and_rates", "group_availability"} ->
            "send_group_rates"
      [] OTHER -> "no-action"

Resolved(intent, confidence, suggested_action, provenance) ==
    [intent |-> intent, confidence |-> confidence,
     suggested_action |-> suggested_action, provenance |-> provenance]

\* lines 172-207: action selection (preceded by the variant without the
\* rule-based fallback of lines 190-195)
ResolveAction_norule(intent, confidence, ai_suggested_action, m_body) ==
    IF UsableAction(ai_suggested_action)
    THEN Resolved(intent, confidence, ai_suggested_action, "ai")
    ELSE IF intent = "unknown" \/ confidence < 60
         THEN Resolved(intent, confidence, "no-action", "ai")
         ELSE Resolved(intent, confidence, IntentToAction(intent), "ai")

ResolveAction(intent, confidence, ai_suggested_action, m_body) ==
    IF UsableAction(ai_suggested_action)
    THEN Resolved(intent, confidence, ai_suggested_action, "ai")
    ELSE IF intent = "unknown" \/ confidence < 60
         THEN LET r == RuleResults[m_body] IN
              IF r[2] > confidence
              THEN Resolved(r[1], r[2], r[3], "rule")
              ELSE Resolved(intent, confidence, "no-action", "ai")
         ELSE Resolved(intent, confidence, IntentToAction(intent), "ai")

\* lines 130-167: what the loop body reads from the classifier call `ai`
\* (the flat attribute required_fields does not exist on IntentResponse, so
\* the legacy branch of lines 154-162 sees None)
AiIntent(ai) == IF ai.raised THEN "unknown" ELSE ai.val.intent
AiConfidence(ai) == IF ai.raised THEN 0 ELSE ai.val.confidence
AiAction(ai) == IF ai.raised THEN NoneVal ELSE ai.val.suggested_action
AiCustomer(ai) == IF ai.raised THEN NoList ELSE ai.val.required_fields_customer
AiResponder(ai) == IF ai.raised THEN NoList ELSE ai.val.required_fields_responder
AiFollowUp(ai) == IF ai.raised THEN NoneVal ELSE ai.val.follow_up_question

\* the part of the store that ingestion writes, the skips and the errors it
\* logs (by position of the message in the upload) and its `saved` list
\* (commits: the tables of the rows the run has committed, in commit order)
Db(ths, msgs, sugs) ==
    [threads |-> ths, messages |-> msgs, suggestions |-> sugs,
     skipped |-> {}, errors |-> {}, saved |-> <<>>, commits |-> <<>>]

\* where the database layer may raise while one message is handled:
\* nowhere, in create_message (nothing of the message is stored), or in
\* create_ai_suggestion (the message row is stored, its suggestion is not)
FailPoints == {"none", "message", "suggestion"}
NoFailures(n) == [i \in 1..n |-> "none"]

\* lines 110-253: the body of `for m in messages`; pos is the position of
\* the message in the upload; an exception of the database layer ends in the
\* handler of lines 251-253 (logged, continue)
IngestMessage(db, decs, thread_id, m, ai, fail, pos) ==
    LET existing_msg == get_message_by_thread_and_body(db.messages, thread_id, m.body)
        msgs1 == IF existing_msg # 0 THEN db.messages
                 ELSE Append(db.messages,
                             EmailMessage(thread_id, m.sender, m.recipient, m.body))
        msg_id == IF existing_msg # 0 THEN existing_msg ELSE Len(msgs1)
        r == ResolveAction(AiIntent(ai), AiConfidence(ai), AiAction(ai), m.body)
        log1 == IF existing_msg # 0 THEN db.commits ELSE Append(db.commits, "message")
    IN  IF existing_msg = 0 /\ fail = "message"
        THEN [db EXCEPT !.errors = @ \cup {pos}]
        ELSE IF has_accepted_decision_for_message(db.suggestions, decs, msg_id)
        THEN [db EXCEPT !.messages = msgs1, !.commits = log1, !.skipped = @ \cup {msg_id}]
        ELSE IF fail = "suggestion"
        THEN [db EXCEPT !.messages = msgs1, !.commits = log1, !.errors = @ \cup {pos}]
        ELSE [db EXCEPT
                !.messages = msgs1,
                !.commits = Append(log1, "suggestion"),
                !.suggestions = Append(db.suggestions,
                    AISuggestion(msg_id, r.intent, r.confidence, r.suggested_action,
                                 DumpRequiredFields(AiCustomer(ai), AiResponder(ai)),
                                 AiFollowUp(ai), RawResponse(ai)))]

\* lines 109-253: for m in messages   (ais[off + i] answers message i,
\* fails[off + i] is where the database layer raises for it); preceded by
\* the variant in which an exception ends the loop
RECURSIVE IngestMessages(_, _, _, _, _, _, _, _)
IngestMessages_abort(db, decs, thread_id, msgs, i, ais, fails, off) ==
    IF i > Len(msgs) THEN db
    ELSE LET db1 == IngestMessage(db, decs, thread_id, msgs[i], ais[off + i],
                                  fails[off + i], off + i)
         IN  IF db1.errors # db.errors THEN db1
             ELSE IngestMessages(db1, decs, thread_id, msgs, i + 1, ais, fails, off)

IngestMessages(db, decs, thread_id, msgs, i, ais, fails, off) ==
    IF i > Len(msgs) THEN db
    ELSE IngestMessages(IngestMessage(db, decs, thread_id, msgs[i], ais[off + i],
                                      fails[off + i], off + i),
                        decs, thread_id, msgs, i + 1, ais, fails, off)

\* get_or_create_thread: the table afterwards (preceded by the variant
\* that creates without looking)
get_or_create_thread_always(ths, subject, sender, recipient, body) ==
    Append(ths, EmailThread(subject, sender, recipient, body))

get_or_create_thread(ths, subject, sender, recipient, body) ==
    IF get_thread_by_keys(ths, subject, sender, recipient) # 0 THEN ths
    ELSE Append(ths, EmailThread(subject, sender, recipient, body))

\* lines 95-266: the body of `for i, t in enumerate(threads)`
IngestThread(db, decs, t, ais, fails, off) ==
    LET ths1 == get_or_create_thread(db.threads, t.subject, t.sender, t.recipient, t.body)
        thread_id == get_thread_by_keys(ths1, t.subject, t.sender, t.recipient)
        log1 == IF ths1 = db.threads THEN db.commits ELSE Append(db.commits, "thread")
        db1 == IngestMessages([db EXCEPT !.threads = ths1, !.commits = log1], decs,
                              thread_id, t.messages, 1, ais, fails, off)
    IN  [db1 EXCEPT !.saved = Append(@, thread_id)]

\* lines 92-268: for i, t in enumerate(threads)
RECURSIVE IngestThreads(_, _, _, _, _, _, _)
IngestThreads(db, decs, ths, i, ais, fails, off) ==
    IF i > Len(ths) THEN db
    ELSE IngestThreads(IngestThread(db, decs, ths[i], ais, fails, off),
                       decs, ths, i + 1, ais, fails, off + Len(ths[i].messages))

\* lines 74-90: the threads of the uploaded document, <<>> when it is not
\* JSON or not a list / {"threads": [...]}; preceded by the variant that
\* takes whatever thread objects the document holds
DocThreads_lenient(doc) == doc.threads

DocThreads(doc) == IF doc.kind \in {"list", "wrapped"} THEN doc.threads ELSE <<>>

RECURSIVE CountMessages(_, _)
CountMessages(ths, i) ==
    IF i > Len(ths) THEN 0 ELSE Len(ths[i].messages) + CountMessages(ths, i + 1)

\* process_email_threads(uploaded_file): the store afterwards
process_email_threads(db, decs, doc, ais, fails) ==
    IngestThreads(db, decs, DocThreads(doc), 1, ais, fails, 0)

\* the store when the process running process_email_threads is killed right
\* after its n-th commit: each create_* call commits on its own, so the
\* tables hold the rows of the first n commits of the run `full`
CommitsTo(full, n, table) ==
    Cardinality({c \in 1..n : full.commits[c] = table})
InterruptedAfter(db, full, n) ==
    Db(SubSeq(full.threads, 1, Len(db.threads) + CommitsTo(full, n, "thread")),
       SubSeq(full.messages, 1, Len(db.messages) + CommitsTo(full, n, "message")),
       SubSeq(full.suggestions, 1,
              Len(db.suggestions) + CommitsTo(full, n, "suggestion")))

(***************************************************************************)
(* app.py: what the Threads view computes for a message and its latest     *)
(* suggestion before it draws the buttons.                                 *)
(***************************************************************************)
\* `not x` for an Optional[list]
Falsy(l) == l.kind = "none" \/ Len(l.items) = 0

\* lines 209-231: req_customer / req_responder parsed back from the stored
\* text; when req_customer is empty both are overwritten by attributes that
\* the row does not have
ParseRequiredFields(rf) ==
    LET parsed_customer == IF rf.fmt = "json" THEN rf.customer ELSE NoList
        parsed_responder == IF rf.fmt = "json" THEN rf.responder ELSE NoList
    IN  IF Falsy(parsed_customer)
        THEN [customer |-> NoList, responder |-> NoList]
        ELSE [customer |-> parsed_customer, responder |-> parsed_responder]

\* lines 242-247: the session flag accepted_suggestion_{id} is only set
\* right after an 'accept' row is committed, so the flag implies the row
accepted_state(decs, sug) == has_accepted_decision_for_suggestion(decs, sug)

\* lines 250-255: likewise sent_for_message_{id} implies a sent draft row
sent_state(drs, m) == has_sent_draft_for_message(drs, m)

(***************************************************************************)
(* app.py: the two Re-evaluate buttons.                                    *)
(***************************************************************************)
\* lines 362-372 and 595-607: rule fallback, else the two-entry table
ReevalResolve(ai, body) ==
    IF ai.val.intent = "unknown" \/ ai.val.confidence <= 0
    THEN LET r == RuleResults[body] IN
         Resolved(r[1], r[2], r[3], "rule")
    ELSE Resolved(ai.val.intent, ai.val.confidence,
                  CASE ai.val.intent = "interested" -> "send_pricing"
                    [] ai.val.intent = "not_interested" -> "close_thread"
                    [] OTHER -> "no-action",
                  "ai")

\* lines 373-381 and 610-619: should a new row be written?
ShouldCreate(sugs, latest, confidence) ==
    /\ latest = 0 \/ confidence > sugs[latest].confidence
    /\ confidence > 0

\* lines 353-396: one iteration of `for mm in msgs`; the flat attribute
\* required_fields does not exist on IntentResponse, so None is stored
\* (preceded by the variant that rewrites the latest row in place)
ReevalMessage_update(sugs, msgs, mm, ai) ==
    LET latest == get_latest_suggestion_for_message(sugs, mm)
        r == ReevalResolve(ai, msgs[mm].body)
        row == AISuggestion(mm, r.intent, r.confidence, r.suggested_action,
                            StoredNull, ai.val.follow_up_question, RawNone)
    IN  IF ~ShouldCreate(sugs, latest, r.confidence) THEN sugs
        ELSE IF latest = 0 THEN Append(sugs, row)
        ELSE [sugs EXCEPT ![latest] = row]

ReevalMessage(sugs, msgs, mm, ai) ==
    LET latest == get_latest_suggestion_for_message(sugs, mm)
        r == ReevalResolve(ai, msgs[mm].body)
    IN  IF ShouldCreate(sugs, latest, r.confidence)
        THEN Append(sugs, AISuggestion(mm, r.intent, r.confidence, r.suggested_action,
                                       StoredNull, ai.val.follow_up_question, RawNone))
        ELSE sugs

\* lines 352-396: for mm in msgs
RECURSIVE ReevalMessages(_, _, _, _, _)
ReevalMessages(sugs, msgs, ids, i, ais) ==
    IF i > Len(ids) THEN sugs
    ELSE ReevalMessages(ReevalMessage(sugs, msgs, ids[i], ais[i]),
                        msgs, ids, i + 1, ais)

\* lines 582-650: an iteration of the thread-level loop reaches
\* create_ai_suggestion(message_id=mm.id) only when a latest suggestion
\* exists (the call sits inside the `else` of `if latest is None`); `mm` is
\* not bound in that run, so evaluating the argument raises
\* UnboundLocalError before any row is written
ThreadReevalRaises(sugs, msgs, m, ai) ==
    LET latest == get_latest_suggestion_for_message(sugs, m)
        r == ReevalResolve(ai, msgs[m].body)
    IN  latest # 0 /\ ShouldCreate(sugs, latest, r.confidence)

\* lines 582-651: for m in msgs.  No iteration writes a row: without a
\* latest suggestion the create call is not reached, with one it raises
ReevalThread(sugs, msgs, ids, ais) ==
    [suggestions |-> sugs,
     raised |-> \E i \in 1..Len(ids) : ThreadReevalRaises(sugs, msgs, ids[i], ais[i])]

(***************************************************************************)
(* Classifier harness: the provider answers, get_intent is called.         *)
(***************************************************************************)
IntentInit ==
    /\ response = EmptyResponse
    /\ intentOut = <<>>

\* client.chat.completions.parse(...) behaves as r
ProviderResponds(r) ==
    /\ response' = r
    /\ intentOut' = <<>>
    /\ UNCHANGED <<ruleVars, replyVars, storeVars, uiVars, callVars, runs>>

\* the caller invokes get_intent(messages)
CallGetIntent ==
    /\ intentOut = <<>>
    /\ intentOut' = <<get_intent(response)>>
    /\ UNCHANGED <<ruleVars, response, replyVars, storeVars, uiVars, callVars, runs>>

IntentNext ==
    \/ \E r \in Responses : ProviderResponds(r)
    \/ CallGetIntent

(***************************************************************************)
(* ai/integrations.py: generate_reply_draft.  A Python value that may or   *)
(* may not be a str is a record [kind, v]: kind "str" with the text v,     *)
(* or kind "none" for None.                                                *)
(***************************************************************************)
Str(v) == [kind |-> "str", v |-> v]
PyNone == [kind |-> "none", v |-> ""]

\* lines 165-181: try: create(...); pick the text; except: return ""
generate_reply_draft(resp) ==
    IF resp.raises THEN Returned(Str(""))
    ELSE IF resp.choices = "one" /\ resp.has_message_content
         THEN Returned(resp.content)
    ELSE IF resp.choices = "one" /\ resp.has_text
         THEN Returned(resp.text)
    ELSE Returned(Str(resp.repr))

\* what client.chat.completions.create can do: raise, or return an object
\* whose `choices` is absent, empty or holds a choice; the choice may have
\* message.content and/or text, each a str or None
Completion(raises, choices, has_message_content, content, has_text, txt) ==
    [raises |-> raises, choices |-> choices,
     has_message_content |-> has_message_content, content |-> content,
     has_text |-> has_text, text |-> txt, repr |-> "ChatCompletion(...)"]
ReplyContents == {PyNone, Str(""), Str("Hello"), Str("Dear customer"), Str(" ")}
ReplyTexts == {PyNone, Str(""), Str("Hi")}
CompletionRaises == Completion(TRUE, "absent", FALSE, PyNone, FALSE, PyNone)
Completions ==
    { CompletionRaises }
    \cup { Completion(FALSE, c, FALSE, PyNone, FALSE, PyNone) : c \in {"absent", "empty"} }
    \cup { Completion(FALSE, "one", hm, c, ht, t) :
             hm \in BOOLEAN, c \in ReplyContents, ht \in BOOLEAN, t \in ReplyTexts }

ReplyInit ==
    /\ completion = CompletionRaises
    /\ replyOut = <<>>

\* client.chat.completions.create(...) behaves as r
ProviderCompletes(r) ==
    /\ completion' = r
    /\ replyOut' = <<>>
    /\ UNCHANGED <<ruleVars, intentVars, storeVars, uiVars, callVars, runs>>

\* the caller invokes generate_reply_draft(suggestion, original_message)
CallGenerateReplyDraft ==
    /\ replyOut = <<>>
    /\ replyOut' = <<generate_reply_draft(completion)>>
    /\ UNCHANGED <<ruleVars, intentVars, completion, storeVars, uiVars, callVars, runs>>

ReplyNext ==
    \/ \E r \in Completions : ProviderCompletes(r)
    \/ CallGenerateReplyDraft

(***************************************************************************)
(* core/orchestrator.py: process_email_thread(subject, sender, recipient,  *)
(* body, db=None), and the callers of tests/test_orchestrator.py, which    *)
(* pass one positional argument: the thread as a list of message dicts.    *)
(***************************************************************************)
\* create_thread: a new row, whether or not the keys already exist
create_thread(ths, subject, sender, recipient, body) ==
    Append(ths, EmailThread(subject, sender, recipient, body))

\* messages of a thread given as a list, and rows the harness lets the
\* table email_threads grow to
MaxThreadLen == 2
MaxThreadRows == 1

\* a call: how many positional arguments it passes and what they are
ListCall(items) ==
    [positional |-> 1, email_thread |-> items, subject |-> "", sender |-> "",
     recipient |-> "", body |-> <<>>]
StrCall(subject, sender, recipient, body) ==
    [positional |-> 4, email_thread |-> <<>>, subject |-> subject, sender |-> sender,
     recipient |-> recipient, body |-> body]

TestMessage(body) ==
    [from |-> "sales@sunrisehotel.com", to |-> "your_email_reply_team@example.com",
     subject |-> "Corporate stay plan", body |-> body]

ThreadLists ==
    UNION {[1..n -> {TestMessage(b) : b \in Bodies}] : n \in 0..MaxThreadLen}

ThreadCalls ==
    {ListCall(l) : l \in ThreadLists}
        \cup {StrCall(subj, "a@x.com", "b@x.com", b) : subj \in {"S", "T"}, b \in Bodies}

NoCall == ListCall(<<TestMessage(<<>>)>>)

\* what a call produces: an exception, or an object with these keys
\* (attributes), and the table email_threads afterwards
ThreadColumns == {"id", "subject", "sender", "recipient", "body", "timestamp", "status"}

\* binding the arguments: subject, sender, recipient and body are required
process_email_thread(ths, call) ==
    IF call.positional < 4
    THEN [raised |-> TRUE, keys |-> {}, thread_id |-> 0, threads |-> ths]
    ELSE LET ths1 == create_thread(ths, call.subject, call.sender, call.recipient,
                                   call.body)
         IN  [raised |-> FALSE, keys |-> ThreadColumns, thread_id |-> Len(ths1),
              threads |-> ths1]

ThreadInit ==
    /\ thread_args = NoCall
    /\ thread_out = <<>>

\* the caller prepares the arguments of the next call
ThreadArguments(call) ==
    /\ thread_args' = call
    /\ thread_out' = <<>>
    /\ UNCHANGED <<ruleVars, intentVars, replyVars, storeVars, uiVars, runs>>

\* the caller invokes process_email_thread(*args)
CallProcessEmailThread ==
    LET r == process_email_thread(threads, thread_args) IN
    /\ thread_out = <<>>
    /\ Len(r.threads) <= MaxThreadRows
    /\ thread_out' = <<[raised |-> r.raised, keys |-> r.keys, thread_id |-> r.thread_id]>>
    /\ threads' = r.threads
    /\ UNCHANGED <<ruleVars, intentVars, replyVars, messages, suggestions, decisions,
                   drafts, now, uiVars, thread_args, runs>>

ThreadNext ==
    \/ \E call \in ThreadCalls : ThreadArguments(call)
    \/ CallProcessEmailThread

(***************************************************************************)
(* Rule engine harness: texts are built from fragments and classified.     *)
(***************************************************************************)
MaxFrags == 3

Fragments ==
    { <<>>,
      <<" ">>,
      <<"\t">>,
      <<"p","r","i","c","i","n","g">>,
      <<"P","r","i","c","e">>,
      <<"U","R","G","E","N","T">>,
      <<"n","o","t"," ">>,
      <<"i","n","t","e","r","e","s","t","e","d">>,
      <<"n","o"," ","t","h","a","n","k","s">>,
      <<"D","o","n","'","t"," ","n","e","e","d">>,
      <<"m","a","n","a","g","e","r">>,
      <<"h","e","l","l","o">> }

RuleInit ==
    /\ text = [val |-> NoneText, frags |-> 0]
    /\ ruleOut = NotRun

\* the caller extends the text by one fragment
RuleInput(f) ==
    /\ text.frags < MaxFrags
    /\ text' = [val |-> IF text.val = NoneText THEN f ELSE text.val \o f,
                frags |-> text.frags + 1]
    /\ ruleOut' = NotRun
    /\ UNCHANGED <<intentVars, replyVars, storeVars, uiVars, callVars, runs>>

\* the caller invokes rule_based_intent_and_action(text)
RuleClassify ==
    /\ ruleOut = NotRun
    /\ ruleOut' = rule_based_intent_and_action(text.val)
    /\ UNCHANGED <<text, intentVars, replyVars, storeVars, uiVars, callVars, runs>>

RuleNext ==
    \/ \E f \in Fragments : RuleInput(f)
    \/ RuleClassify

(***************************************************************************)
(* The application: uploads, decisions, re-evaluation and drafts.          *)
(***************************************************************************)
\* rows of ai_suggestions, of user_decisions and of email_drafts, and the
\* number of calls of mark_draft_sent (each reads the clock once)
MaxSuggestions == 2
MaxDecisions == 1
MaxDrafts == 2
MaxClock == 2

MessageObj(body) == [sender |-> "a@x.com", recipient |-> "b@x.com", body |-> body]
ThreadObj(subject, msgs) ==
    [subject |-> subject, sender |-> "a@x.com", recipient |-> "b@x.com",
     body |-> B_hi, messages |-> msgs]

\* the uploaded documents
Doc_S == [name |-> "S.json", kind |-> "list",
          threads |-> <<ThreadObj("S", <<MessageObj(B_pricing)>>)>>]
Doc_ST == [name |-> "ST.json", kind |-> "wrapped",
           threads |-> <<ThreadObj("S", <<MessageObj(B_pricing), MessageObj(B_hi)>>),
                         ThreadObj("T", <<>>)>>]
\* a JSON object without the key 'threads': a single thread object
Doc_object == [name |-> "obj.json", kind |-> "object",
               threads |-> <<ThreadObj("T", <<MessageObj(B_hi)>>)>>]
NoUpload == "none"
Docs == {Doc_S, Doc_ST, Doc_object}
DocNamed(name) == CHOOSE d \in Docs : d.name = name

\* a document with one thread never seen before, holding one message
FreshDoc(body) ==
    [name |-> "fresh.json", kind |-> "list",
     threads |-> <<[subject |-> "U", sender |-> "a@x.com", recipient |-> "b@x.com",
                    body |-> B_hi, messages |-> <<MessageObj(body)>>]>>]

\* what the classifier call does in process_email_threads: get_intent on a
\* provider response (get_intent itself catches what the provider raises)
IngestResponses ==
    { ProviderRaises,
      [raises |-> FALSE, value |-> NoValue, has_choices |-> TRUE,
       content |-> Content("str", "json", TRUE, P_interested, SafeDefault)],
      [raises |-> FALSE, value |-> Value("dict", P_full, SafeDefault),
       has_choices |-> FALSE, content |-> NoContent],
      [raises |-> FALSE, value |-> Value("dict", P_over, SafeDefault),
       has_choices |-> FALSE, content |-> NoContent] }
ClassifierResults == {get_intent(r) : r \in IngestResponses}

OverrideTexts == {"", "call"}

AppInit ==
    /\ threads = <<>>
    /\ messages = <<>>
    /\ suggestions = <<>>
    /\ decisions = <<>>
    /\ drafts = <<>>
    /\ now = 0
    /\ draft_for = {}
    /\ pending_send = 0
    /\ crashed = FALSE
    /\ skip_log = {}
    /\ error_log = {}
    /\ last_upload = NoUpload
    /\ provided_required = {}

\* sidebar "Process uploaded file": process_email_threads(uploaded_file)
ProcessUpload(doc, ais, fails) ==
    LET db == process_email_threads(Db(threads, messages, suggestions),
                                    decisions, doc, ais, fails)
    IN  /\ Len(db.suggestions) <= MaxSuggestions
        /\ threads' = db.threads
        /\ messages' = db.messages
        /\ suggestions' = db.suggestions
        /\ skip_log' = db.skipped
        /\ error_log' = db.errors
        /\ last_upload' = doc.name
        /\ crashed' = FALSE
        /\ UNCHANGED <<decisions, drafts, now, draft_for, pending_send,
                       provided_required, ruleVars, intentVars, replyVars, callVars, runs>>

\* lines 269-302: "Accept#<sug>" on message m; draft_ok says whether
\* generate_reply_draft returned a non-empty body.  The form of lines
\* 429-518, whose "Confirm accept" sets provided_required_<sug>, is drawn
\* only when the parsed required fields are non-empty.
Accept(m, draft_ok) ==
    LET sug == get_latest_suggestion_for_message(suggestions, m)
        req == IF sug = 0 THEN [customer |-> NoList, responder |-> NoList]
               ELSE ParseRequiredFields(suggestions[sug].required_fields)
        has_required == ~Falsy(req.customer) \/ ~Falsy(req.responder)
        needs_form == has_required /\ sug \notin provided_required
    IN  /\ sug # 0
        /\ ~accepted_state(decisions, sug)
        /\ Len(decisions) < MaxDecisions
        /\ draft_ok => Len(drafts) < MaxDrafts
        /\ crashed' = FALSE
        /\ skip_log' = {}
        /\ error_log' = {}
        /\ last_upload' = NoUpload
        /\ IF needs_form
           THEN UNCHANGED <<decisions, drafts, draft_for>>
           ELSE /\ decisions' = record_user_decision(decisions, sug, "demo_user", "accept")
                /\ IF ~has_required /\ draft_ok
                   THEN /\ drafts' = Append(drafts,
                              EmailDraft(messages[m].thread_id, m, sug, "draft"))
                        /\ draft_for' = draft_for \cup {m}
                   ELSE UNCHANGED <<drafts, draft_for>>
        /\ UNCHANGED <<threads, messages, suggestions, now, pending_send, provided_required,
                       ruleVars, intentVars, replyVars, callVars, runs>>

\* lines 343-350: "Override#<sug>" with the text typed next to it
Override(m, override) ==
    LET sug == get_latest_suggestion_for_message(suggestions, m) IN
    /\ sug # 0
    /\ Len(decisions) < MaxDecisions
    /\ decisions' = IF override # ""
                    THEN record_user_decision(decisions, sug, "demo_user",
                                              "override:" \o override)
                    ELSE decisions
    /\ crashed' = FALSE
    /\ skip_log' = {}
    /\ error_log' = {}
    /\ last_upload' = NoUpload
    /\ UNCHANGED <<threads, messages, suggestions, drafts, now, draft_for, pending_send,
                   provided_required,
                    ruleVars, intentVars, replyVars, callVars, runs>>

\* lines 531-551: "Send draft for message m" from the inline editor
SendDraftInline(m) ==
    LET sug == get_latest_suggestion_for_message(suggestions, m)
        created == Append(drafts, EmailDraft(messages[m].thread_id, m, sug, "draft"))
    IN  /\ sug # 0
        /\ m \in draft_for
        /\ Len(drafts) < MaxDrafts
        /\ now < MaxClock
        /\ now' = now + 1
        /\ drafts' = mark_draft_sent(created, Len(created), now')
        /\ draft_for' = draft_for \ {m}
        /\ crashed' = FALSE
        /\ skip_log' = {}
        /\ error_log' = {}
        /\ last_upload' = NoUpload
        /\ UNCHANGED <<threads, messages, suggestions, decisions, pending_send, provided_required,
                        ruleVars, intentVars, replyVars, callVars, runs>>

\* lines 351-397: the Re-evaluate button drawn next to message m
\* re-evaluates every message of m's thread
ReevaluateMessages(m, ais) ==
    LET ids == list_messages_for_thread(messages, messages[m].thread_id)
        sugs == ReevalMessages(suggestions, messages, ids, 1, ais)
    IN  /\ get_latest_suggestion_for_message(suggestions, m) # 0
        /\ Len(sugs) <= MaxSuggestions
        /\ suggestions' = sugs
        /\ crashed' = FALSE
        /\ skip_log' = {}
        /\ error_log' = {}
        /\ last_upload' = NoUpload
        /\ UNCHANGED <<threads, messages, decisions, drafts, now, draft_for, pending_send,
                       provided_required,
                        ruleVars, intentVars, replyVars, callVars, runs>>

\* lines 576-651: "Re-evaluate suggestions for thread t"
ReevaluateThread(t, ais) ==
    LET ids == list_messages_for_thread(messages, t)
        r == ReevalThread(suggestions, messages, ids, ais)
    IN  /\ ~\E i \in 1..Len(ids) : has_sent_draft_for_message(drafts, ids[i])
        /\ suggestions' = r.suggestions
        /\ crashed' = r.raised
        /\ skip_log' = {}
        /\ error_log' = {}
        /\ last_upload' = NoUpload
        /\ UNCHANGED <<threads, messages, decisions, drafts, now, draft_for, pending_send,
                       provided_required, ruleVars, intentVars, replyVars, callVars, runs>>

\* lines 80-147: a second browser session's Drafts view run has read
\* list_draft(), found d in it and seen the click on "Send draft d"
OtherSessionClicksSend(d) ==
    /\ pending_send = 0
    /\ d \in list_draft(drafts)
    /\ pending_send' = d
    /\ crashed' = FALSE
    /\ skip_log' = {}
    /\ error_log' = {}
    /\ last_upload' = NoUpload
    /\ UNCHANGED <<storeVars, draft_for, provided_required, ruleVars, intentVars,
                   replyVars, callVars, runs>>

\* lines 145-151: "Send draft d" in the operator's Drafts view
SendDraftSide(d) ==
    /\ d \in list_draft(drafts)
    /\ now < MaxClock
    /\ now' = now + 1
    /\ drafts' = mark_draft_sent(drafts, d, now')
    /\ crashed' = FALSE
    /\ skip_log' = {}
    /\ error_log' = {}
    /\ last_upload' = NoUpload
    /\ UNCHANGED <<threads, messages, suggestions, decisions, draft_for, pending_send,
                   provided_required,
                    ruleVars, intentVars, replyVars, callVars, runs>>

\* lines 148-151: that run reaches mark_draft_sent(db, d.id)
OtherSessionSends ==
    /\ pending_send # 0
    /\ now < MaxClock
    /\ now' = now + 1
    /\ drafts' = mark_draft_sent(drafts, pending_send, now')
    /\ pending_send' = 0
    /\ crashed' = FALSE
    /\ skip_log' = {}
    /\ error_log' = {}
    /\ last_upload' = NoUpload
    /\ UNCHANGED <<threads, messages, suggestions, decisions, draft_for, provided_required,
                   ruleVars, intentVars, replyVars, callVars, runs>>

MessageIds == 1..Len(messages)
ThreadIds == 1..Len(threads)

Next ==
    \/ \E doc \in Docs :
         \E ais \in [1..CountMessages(DocThreads(doc), 1) -> ClassifierResults] :
            ProcessUpload(doc, ais, NoFailures(Len(ais)))
    \/ \E m \in MessageIds, draft_ok \in BOOLEAN : Accept(m, draft_ok)
    \/ \E m \in MessageIds, override \in OverrideTexts : Override(m, override)
    \/ \E m \in MessageIds : SendDraftInline(m)
    \/ \E m \in MessageIds :
         \E ais \in [1..Len(list_messages_for_thread(messages, messages[m].thread_id))
                     -> ClassifierResults] :
            ReevaluateMessages(m, ais)
    \/ \E t \in ThreadIds :
         \E ais \in [1..Len(list_messages_for_thread(messages, t)) -> ClassifierResults] :
            ReevaluateThread(t, ais)
    \/ \E d \in 1..Len(drafts) : SendDraftSide(d)
    \/ \E d \in 1..Len(drafts) : OtherSessionClicksSend(d)
    \/ OtherSessionSends

\* the browser sessions that may run process_email_threads at the same
\* time, and where a run stands: its document, the thread and message it
\* is at, and the row ids it holds
Sessions == {1, 2}
Run(pc, doc, ti, mi, thread_id, msg_id) ==
    [pc |-> pc, doc |-> doc, ti |-> ti, mi |-> mi, thread_id |-> thread_id,
     msg_id |-> msg_id]
Idle == Run("idle", NoUpload, 0, 0, 0, 0)

RunInit == runs = [s \in Sessions |-> Idle]

Init == RuleInit /\ IntentInit /\ ReplyInit /\ ThreadInit /\ AppInit /\ RunInit

Spec == Init /\ [][Next]_vars

\* the application on a database layer that may raise during an upload;
\* the classifier call raises or returns a complete result
FailureAnswers ==
    {Raised,
     get_intent([raises |-> FALSE, value |-> Value("dict", P_full, SafeDefault),
                 has_choices |-> FALSE, content |-> NoContent])}

FaultNext ==
    \/ \E doc \in Docs :
         \E ais \in [1..CountMessages(DocThreads(doc), 1) -> FailureAnswers],
            fails \in [1..CountMessages(DocThreads(doc), 1) -> FailPoints] :
            ProcessUpload(doc, ais, fails)
    \/ \E m \in MessageIds, draft_ok \in BOOLEAN : Accept(m, draft_ok)

SpecFaults == Init /\ [][FaultNext]_vars

\* the application when the process may be killed in the middle of an
\* upload: the run shows nothing, the rows it committed stay
InterruptedUpload(doc, ais, n) ==
    LET db == Db(threads, messages, suggestions)
        full == process_email_threads(db, decisions, doc, ais, NoFailures(Len(ais)))
        left == InterruptedAfter(db, full, n)
    IN  /\ n \in 1..Len(full.commits)
        /\ Len(full.suggestions) <= MaxSuggestions
        /\ threads' = left.threads
        /\ messages' = left.messages
        /\ suggestions' = left.suggestions
        /\ crashed' = TRUE
        /\ skip_log' = {}
        /\ error_log' = {}
        /\ last_upload' = NoUpload
        /\ UNCHANGED <<decisions, drafts, now, draft_for, pending_send,
                       provided_required, ruleVars, intentVars, replyVars, callVars, runs>>

\* the most commits one upload makes: a thread row, then a message row and
\* a suggestion row per message
MaxCommits(doc) == Len(DocThreads(doc)) + 2 * CountMessages(DocThreads(doc), 1)

CrashNext ==
    \/ \E doc \in Docs :
         \E ais \in [1..CountMessages(DocThreads(doc), 1) -> FailureAnswers] :
            \/ ProcessUpload(doc, ais, NoFailures(Len(ais)))
            \/ \E n \in 1..MaxCommits(doc) : InterruptedUpload(doc, ais, n)
    \/ \E m \in MessageIds, draft_ok \in BOOLEAN : Accept(m, draft_ok)

SpecCrash == Init /\ [][CrashNext]_vars

(***************************************************************************)
(* Two browser sessions run process_email_threads on the same document at  *)
(* the same time.  Streamlit runs each session's script in its own thread  *)
(* and SessionLocal is a scoped_session, so each run has its own database  *)
(* session; every crud call is one query or one insert with its commit,    *)
(* and the calls of the two runs interleave.  No table has a uniqueness    *)
(* constraint on the de-duplication keys.                                  *)
(***************************************************************************)
ConcurrentDocs == {Doc_S, Doc_ST}

RunThread(r) == DocThreads(DocNamed(r.doc))[r.ti]
RunMessage(r) == RunThread(r).messages[r.mi]

\* where the run goes once the thread row of thread ti is known
EnterThread(r, thread_id) ==
    LET ths == DocThreads(DocNamed(r.doc)) IN
    IF Len(ths[r.ti].messages) > 0
    THEN [r EXCEPT !.pc = "message_lookup", !.mi = 1, !.thread_id = thread_id]
    ELSE IF r.ti < Len(ths)
    THEN [r EXCEPT !.pc = "thread_lookup", !.ti = r.ti + 1, !.thread_id = 0, !.msg_id = 0]
    ELSE [r EXCEPT !.pc = "return", !.thread_id = thread_id]

\* where the run goes once message mi is dealt with
LeaveMessage(r) ==
    LET ths == DocThreads(DocNamed(r.doc)) IN
    IF r.mi < Len(ths[r.ti].messages)
    THEN [r EXCEPT !.pc = "message_lookup", !.mi = r.mi + 1, !.msg_id = 0]
    ELSE IF r.ti < Len(ths)
    THEN [r EXCEPT !.pc = "thread_lookup", !.ti = r.ti + 1, !.mi = 0,
                   !.thread_id = 0, !.msg_id = 0]
    ELSE [r EXCEPT !.pc = "return"]

\* a session clicks "Process uploaded file" on the document the other
\* session is processing or about to process
StartRun(s, doc) ==
    /\ runs[s].pc = "idle"
    /\ \A o \in Sessions : runs[o].doc \in {NoUpload, doc.name}
    /\ runs' = [runs EXCEPT ![s] = Run("thread_lookup", doc.name, 1, 0, 0, 0)]
    /\ UNCHANGED <<ruleVars, intentVars, replyVars, callVars, storeVars, uiVars>>

\* get_or_create_thread, line 22: existing = get_thread_by_keys(...)
LookupThread(s) ==
    LET r == runs[s]
        t == RunThread(r)
        existing == get_thread_by_keys(threads, t.subject, t.sender, t.recipient)
    IN  /\ r.pc = "thread_lookup"
        /\ runs' = [runs EXCEPT ![s] =
                        IF existing # 0 THEN EnterThread(r, existing)
                        ELSE [r EXCEPT !.pc = "thread_create"]]
        /\ UNCHANGED <<ruleVars, intentVars, replyVars, callVars, storeVars, uiVars>>

\* get_or_create_thread, line 25: return create_thread(...)
CreateThread(s) ==
    LET r == runs[s]
        t == RunThread(r)
        ths1 == create_thread(threads, t.subject, t.sender, t.recipient, t.body)
    IN  /\ r.pc = "thread_create"
        /\ threads' = ths1
        /\ runs' = [runs EXCEPT ![s] = EnterThread(r, Len(ths1))]
        /\ UNCHANGED <<ruleVars, intentVars, replyVars, callVars, messages, suggestions,
                       decisions, drafts, now, uiVars>>

\* orchestrator.py line 115: existing_msg = get_message_by_thread_and_body(...)
LookupMessage(s) ==
    LET r == runs[s]
        existing_msg == get_message_by_thread_and_body(messages, r.thread_id,
                                                       RunMessage(r).body)
    IN  /\ r.pc = "message_lookup"
        /\ runs' = [runs EXCEPT ![s] =
                        IF existing_msg # 0
                        THEN [r EXCEPT !.pc = "suggest", !.msg_id = existing_msg]
                        ELSE [r EXCEPT !.pc = "message_create"]]
        /\ UNCHANGED <<ruleVars, intentVars, replyVars, callVars, storeVars, uiVars>>

\* orchestrator.py lines 119-121: msg_model = create_message(...)
CreateMessage(s) ==
    LET r == runs[s]
        m == RunMessage(r)
        msgs1 == Append(messages, EmailMessage(r.thread_id, m.sender, m.recipient, m.body))
    IN  /\ r.pc = "message_create"
        /\ messages' = msgs1
        /\ runs' = [runs EXCEPT ![s] = [r EXCEPT !.pc = "suggest", !.msg_id = Len(msgs1)]]
        /\ UNCHANGED <<ruleVars, intentVars, replyVars, callVars, threads, suggestions,
                       decisions, drafts, now, uiVars>>

\* orchestrator.py lines 124-249: skip an accepted message, else classify,
\* select the action and create_ai_suggestion
Suggest(s, ai) ==
    LET r == runs[s]
        m == RunMessage(r)
        res == ResolveAction(AiIntent(ai), AiConfidence(ai), AiAction(ai), m.body)
    IN  /\ r.pc = "suggest"
        /\ suggestions' =
              IF has_accepted_decision_for_message(suggestions, decisions, r.msg_id)
              THEN suggestions
              ELSE Append(suggestions,
                     AISuggestion(r.msg_id, res.intent, res.confidence,
                                  res.suggested_action,
                                  DumpRequiredFields(AiCustomer(ai), AiResponder(ai)),
                                  AiFollowUp(ai), RawResponse(ai)))
        /\ runs' = [runs EXCEPT ![s] = LeaveMessage(r)]
        /\ UNCHANGED <<ruleVars, intentVars, replyVars, callVars, threads, messages,
                       decisions, drafts, now, uiVars>>

\* orchestrator.py lines 267-271 and app.py lines 49-67: the run returns
\* and the page shows its result
FinishRun(s) ==
    /\ runs[s].pc = "return"
    /\ runs' = [runs EXCEPT ![s] = [@ EXCEPT !.pc = "done"]]
    /\ last_upload' = runs[s].doc
    /\ crashed' = FALSE
    /\ skip_log' = {}
    /\ error_log' = {}
    /\ UNCHANGED <<ruleVars, intentVars, replyVars, callVars, storeVars, draft_for,
                   pending_send, provided_required>>

ConcurrentNext ==
    \/ \E s \in Sessions, doc \in ConcurrentDocs : StartRun(s, doc)
    \/ \E s \in Sessions : LookupThread(s)
    \/ \E s \in Sessions : CreateThread(s)
    \/ \E s \in Sessions : LookupMessage(s)
    \/ \E s \in Sessions : CreateMessage(s)
    \/ \E s \in Sessions, ai \in FailureAnswers : Suggest(s, ai)
    \/ \E s \in Sessions : FinishRun(s)

SpecConcurrent == Init /\ [][ConcurrentNext]_vars

\* action selection: one-message documents are uploaded while the
\* classifier answers with every intent of the table on both sides of the
\* 0.6 threshold, with usable and unusable actions, or fails
MaxSelectRows == 1

SelectIntents ==
    {"unknown", "interested", "not_interested", "cancel_request",
     "cancel_booking_and_request_refund", "escalation", "request_escalation_to_manager",
     "request_group_availability_and_rates", "group_availability", "billing_question"}

Answer(intent, confidence, action) ==
    get_intent([raises |-> FALSE,
                value |-> Value("dict",
                                Payload(intent, confidence, TRUE, action, FMissing,
                                        FMissing, FMissing, Missing),
                                SafeDefault),
                has_choices |-> FALSE, content |-> NoContent])

SelectionAnswers ==
    {Answer(i, c, Missing) : i \in SelectIntents, c \in {59, 60}}
        \cup {Answer(i, c, a) : i \in {"unknown", "interested", "billing_question"},
                                c \in {0, 80},
                                a \in {"no-action", " ", "ask_for_details"}}
        \cup {Raised}

SelectUpload(b, ai) ==
    /\ Len(suggestions) < MaxSelectRows
    /\ ProcessUpload(FreshDoc(b), <<ai>>, NoFailures(1))

SelectNext == \E b \in Bodies, ai \in SelectionAnswers : SelectUpload(b, ai)

SpecSelect == Init /\ [][SelectNext]_vars

SpecRules == Init /\ [][RuleNext]_vars

SpecIntent == Init /\ [][IntentNext]_vars

SpecReply == Init /\ [][ReplyNext]_vars

SpecThread == Init /\ [][ThreadNext]_vars

(***************************************************************************)
(* Rule engine properties (checked under SpecRules).                       *)
(***************************************************************************)
Classified == ruleOut # NotRun

\* C8: for every absent, empty or whitespace-only text,
\* rule_based_intent_and_action returns ("unknown", 0.0, "no-action").
C8_BlankTextIsUnknown ==
    (Classified /\ IsBlank(text.val)) => ruleOut = RuleUnknown

\* a whitespace-only, non-empty text has been classified
C8_Witness ==
    /\ Classified
    /\ text.val # NoneText
    /\ Len(text.val) >= 2
    /\ IsBlank(text.val)

\* Reference: the first group, in the order interested, not-interested,
\* escalation, one of whose keywords occurs in the lower-cased text.
GroupHits(group, l) == \E i \in DOMAIN group : In(group[i], l)

RuleReference(t) ==
    LET l == IF t = NoneText THEN <<>> ELSE Lower(t) IN
    CASE GroupHits(interested_keywords, l) -> <<"interested", 75, "send_pricing">>
      [] ~GroupHits(interested_keywords, l)
         /\ GroupHits(not_interested_keywords, l) -> <<"not_interested", 80, "close_thread">>
      [] ~GroupHits(interested_keywords, l)
         /\ ~GroupHits(not_interested_keywords, l)
         /\ GroupHits(escalate_keywords, l) -> <<"escalate", 90, "escalate_to_ops">>
      [] OTHER -> <<"unknown", 0, "no-action">>

kw_pricing == <<"p","r","i","c","i","n","g">>
kw_urgent == <<"u","r","g","e","n","t">>

\* C9: rule_based_intent_and_action equals the first-matching-group
\* reference on the lower-cased text; a text containing both "pricing" and
\* "urgent" resolves to "interested".
C9_RuleMatchesReference ==
    Classified =>
        /\ ruleOut = RuleReference(text.val)
        /\ (/\ text.val # NoneText
            /\ In(kw_pricing, Lower(text.val))
            /\ In(kw_urgent, Lower(text.val))) => ruleOut[1] = "interested"

\* a text with "urgent" (upper case) before "pricing" has been classified
C9_Witness ==
    /\ Classified
    /\ text.val # NoneText
    /\ In(kw_pricing, Lower(text.val))
    /\ In(kw_urgent, Lower(text.val))
    /\ ~In(kw_urgent, text.val)
    /\ ruleOut = <<"interested", 75, "send_pricing">>

kw_not_interested == <<"n","o","t"," ","i","n","t","e","r","e","s","t","e","d">>
kw_interested_group ==
    { <<"i","n","t","e","r","e","s","t","e","d">>, <<"p","r","i","c","e">>,
      <<"p","r","i","c","i","n","g">>, <<"d","e","t","a","i","l","s">>,
      <<"n","e","e","d"," ","d","e","t","a","i","l","s">>,
      <<"c","a","n"," ","y","o","u"," ","s","h","a","r","e">> }
kw_refusals ==
    { <<"n","o"," ","t","h","a","n","k","s">>, <<"n","o"," ","t","h","a","n","k">>,
      <<"d","o","n","'","t"," ","n","e","e","d">>,
      <<"d","o"," ","n","o","t"," ","n","e","e","d">> }

\* C29: a text that contains "not interested" (in any letter case) is
\* classified ("interested", 0.75, "send_pricing"), because "interested" is
\* found first; ("not_interested", 0.8, "close_thread") is returned only for
\* a text that contains "no thanks", "no thank", "don't need" or "do not
\* need" and no keyword of the interested group.
C29_NotInterestedIsShadowed ==
    (Classified /\ text.val # NoneText) =>
        LET txt == Lower(text.val) IN
        /\ In(kw_not_interested, txt) => ruleOut = <<"interested", 75, "send_pricing">>
        /\ ruleOut = <<"not_interested", 80, "close_thread">> =>
              /\ \E k \in kw_refusals : In(k, txt)
              /\ \A k \in kw_interested_group : ~In(k, txt)

\* "not interested" classified as interested
C29_Witness ==
    /\ Classified
    /\ text.val = <<"n","o","t"," ","i","n","t","e","r","e","s","t","e","d">>
    /\ ruleOut = <<"interested", 75, "send_pricing">>

(***************************************************************************)
(* Classifier properties (checked under SpecIntent).                       *)
(***************************************************************************)
IntentCalled == intentOut # <<>>

\* could IntentResponse be built from the dict, directly or after the legacy
\* required_fields list has replaced required_fields_customer?
Buildable(d) ==
    \/ Valid(d)
    \/ d.required_fields.kind = "list" /\ Valid(NormalizeLegacy(d))

HasValue(resp) == resp.value.kind \in {"dict", "model"}

\* network error or provider exception
OutcomeProviderException(resp) == resp.raises
\* the content is a str from which no JSON can be loaded
OutcomeUnparseable(resp) ==
    /\ ~resp.raises /\ ~HasValue(resp) /\ resp.has_choices
    /\ resp.content.kind = "str"
    /\ \/ resp.content.parse \in {"embedded_bad", "garbage"}
       \/ resp.content.parse = "json" /\ ~resp.content.is_dict
\* the content is a dict, or a str holding one, that the model rejects
OutcomeFailsValidation(resp) ==
    /\ ~resp.raises /\ ~HasValue(resp) /\ resp.has_choices
    /\ \/ resp.content.kind = "dict"
       \/ /\ resp.content.kind = "str"
          /\ resp.content.parse \in {"json", "embedded"}
          /\ resp.content.is_dict
    /\ ~Buildable(resp.content.payload)
\* neither a value nor a usable content
OutcomeNoShape(resp) ==
    /\ ~resp.raises /\ ~HasValue(resp)
    /\ ~resp.has_choices \/ resp.content.kind \in {"none", "other"}

FailureOutcome(resp) ==
    \/ OutcomeProviderException(resp)
    \/ OutcomeUnparseable(resp)
    \/ OutcomeFailsValidation(resp)
    \/ OutcomeNoShape(resp)

\* C10: get_intent never raises to its caller, and for a provider exception,
\* unparseable content, content failing model validation or a response of no
\* recognised shape it returns the safe default ("unknown", 0.0, "no-action",
\* no required fields, no follow-up question).
C10_GetIntentNeverRaises ==
    IntentCalled =>
        /\ ~intentOut[1].raised
        /\ FailureOutcome(response) =>
              /\ intentOut[1].val.intent = "unknown"
              /\ intentOut[1].val.confidence = 0
              /\ intentOut[1].val.suggested_action = "no-action"
              /\ intentOut[1].val.required_fields_customer.kind = "none"
              /\ intentOut[1].val.required_fields_responder.kind = "none"
              /\ intentOut[1].val.follow_up_question = NoneVal

\* get_intent was called on a str content holding a dict that fails
\* validation even after the legacy normalisation (the re-raise path)
C10_Witness ==
    /\ IntentCalled
    /\ OutcomeFailsValidation(response)
    /\ response.content.kind = "str"
    /\ response.content.payload.required_fields.kind = "list"
    /\ ~intentOut[1].raised

\* the dict that get_intent builds its result from: response.value when it
\* is a dict, else the content when it is a dict or a str holding one
ReadDicts(resp) ==
    IF resp.raises THEN {}
    ELSE IF resp.value.kind = "dict" THEN {resp.value.payload}
    ELSE IF resp.value.kind = "model" \/ ~resp.has_choices THEN {}
    ELSE IF resp.content.kind = "dict" THEN {resp.content.payload}
    ELSE IF /\ resp.content.kind = "str"
            /\ resp.content.parse \in {"json", "embedded"}
            /\ resp.content.is_dict
         THEN {resp.content.payload}
         ELSE {}

\* a flat required_fields list of plain strings stands in for
\* required_fields_customer in an otherwise complete dict
LegacyShape(d) ==
    /\ d.intent # Missing
    /\ d.conf_ok
    /\ d.required_fields_customer.kind = "missing"
    /\ d.required_fields_responder.kind = "missing"
    /\ d.required_fields.kind = "list"
    /\ Len(d.required_fields.items) > 0
    /\ \A i \in 1..Len(d.required_fields.items) : d.required_fields.items[i].is_str

\* for each string s in order, {name: s, hint: null, required: true}
LegacyAsCustomerFields(d) ==
    ListOf([i \in 1..Len(d.required_fields.items) |->
               FieldSpec(d.required_fields.items[i].v, NoneVal, TRUE)])

\* C11: when the provider's dict carries a legacy flat required_fields list
\* of plain strings instead of required_fields_customer, the classifier
\* result has the customer list {name: s, hint: null, required: true} for
\* each string s in order.
C11_LegacyListBecomesCustomerFields ==
    IntentCalled =>
        \A d \in ReadDicts(response) :
            LegacyShape(d) =>
                intentOut[1].val.required_fields_customer = LegacyAsCustomerFields(d)

\* the (intent, confidence, suggested_action) of a resolved suggestion
Triple(r) == <<r.intent, r.confidence, r.suggested_action>>

\* C16: for every classifier result and message body, the (intent,
\* confidence, suggested_action) computed by the Re-evaluate buttons equals
\* the one computed by process_email_threads.
C16_ReevaluateResolvesLikeIngestion ==
    IntentCalled =>
        \A b \in Bodies :
            Triple(ReevalResolve(intentOut[1], b))
              = Triple(ResolveAction(AiIntent(intentOut[1]), AiConfidence(intentOut[1]),
                                     AiAction(intentOut[1]), b))

(***************************************************************************)
(* Reply generation properties (checked under SpecReply).                  *)
(***************************************************************************)
ReplyCalled == replyOut # <<>>

\* the text content of the response, when it has one: the message content
\* of the first choice, or else its text
TextContent(resp) ==
    IF resp.raises \/ resp.choices # "one" THEN {}
    ELSE IF resp.has_message_content
         THEN {resp.content.v : k \in {resp.content.kind} \cap {"str"}}
    ELSE IF resp.has_text
         THEN {resp.text.v : k \in {resp.text.kind} \cap {"str"}}
    ELSE {}

\* C15: generate_reply_draft never raises and always returns a string: the
\* text content of the provider's response when there is one, and the empty
\* string when the provider call fails or no text can be extracted.
C15_ReplyDraftIsAlwaysAString ==
    ReplyCalled =>
        /\ ~replyOut[1].raised
        /\ replyOut[1].val.kind = "str"
        /\ \A t \in TextContent(completion) : replyOut[1].val = Str(t)
        /\ TextContent(completion) = {} => replyOut[1].val = Str("")

\* C21: process_email_thread called with a thread given as a list of message
\* objects returns (does not raise) an object with the keys
\* recognized_intents and proposed_actions.
C21_ListCallReturnsSummary ==
    (thread_out # <<>> /\ thread_args.positional = 1) =>
        /\ ~thread_out[1].raised
        /\ {"recognized_intents", "proposed_actions"} \subseteq thread_out[1].keys

(***************************************************************************)
(* Application properties (checked under Spec).                            *)
(***************************************************************************)
\* the suggestion rows of message m
SuggestionsOf(sugs, m) == {i \in 1..Len(sugs) : sugs[i].message_id = m}
SuggestionCount(sugs, m) == Cardinality(SuggestionsOf(sugs, m))

\* the most recent suggestion of m carries an 'accept' decision
LatestAccepted(m) ==
    /\ SuggestionsOf(suggestions, m) # {}
    /\ \E d \in 1..Len(decisions) :
          /\ decisions[d].suggestion_id = MaxId(SuggestionsOf(suggestions, m))
          /\ decisions[d].decision = "accept"

\* C1: once a message's latest Suggestion has an 'accept' Decision, no
\* user-triggered operation (upload, Accept, Override, either Re-evaluate
\* button, Send draft) adds a Suggestion row for that message.
C1_AcceptedMessageGetsNoSuggestion ==
    [][\A m \in 1..Len(messages) :
          LatestAccepted(m) =>
              SuggestionCount(suggestions', m) = SuggestionCount(suggestions, m)]_vars

\* the rows that an uploaded message object landed on
ThreadRowOf(ths, t) ==
    MaxId({i \in 1..Len(ths) : /\ ths[i].subject = t.subject
                               /\ ths[i].sender = t.sender
                               /\ ths[i].recipient = t.recipient})
MessageRowOf(ths, msgs, t, m) ==
    MaxId({i \in 1..Len(msgs) : /\ msgs[i].thread_id = ThreadRowOf(ths, t)
                                /\ msgs[i].body = m.body})

\* C2: when an upload re-ingests a message whose latest Suggestion has an
\* 'accept' Decision, that message is skipped (logged, no new Suggestion row)
\* and every other message of the document still gets its Suggestion row.
C2_ReingestSkipsAccepted ==
    [][last_upload' # NoUpload =>
        LET ths == DocThreads(DocNamed(last_upload')) IN
        \A t \in 1..Len(ths) : \A i \in 1..Len(ths[t].messages) :
            LET mid == MessageRowOf(threads', messages', ths[t], ths[t].messages[i]) IN
            /\ mid # 0
            /\ IF mid <= Len(messages) /\ LatestAccepted(mid)
               THEN /\ mid \in skip_log'
                    /\ SuggestionCount(suggestions', mid) = SuggestionCount(suggestions, mid)
               ELSE /\ mid \notin skip_log'
                    /\ SuggestionCount(suggestions', mid) =
                          SuggestionCount(suggestions, mid) + 1]_vars

\* an upload skipped an accepted message and gave a later message of the
\* same thread the newest Suggestion row
C2_Witness ==
    /\ last_upload # NoUpload
    /\ \E m \in skip_log :
          /\ LatestAccepted(m)
          /\ \E m2 \in 1..Len(messages) :
                /\ m2 > m
                /\ m2 \notin skip_log
                /\ messages[m2].thread_id = messages[m].thread_id
                /\ suggestions[Len(suggestions)].message_id = m2

\* the classifier result behind suggestion row s carried a non-empty
\* customer or responder required-fields list
CarriedRequiredFields(sug) ==
    \/ HasObjects(sug.required_fields.customer)
    \/ HasObjects(sug.required_fields.responder)

AcceptedRows(decs, s) ==
    {d \in 1..Len(decs) : decs[d].suggestion_id = s /\ decs[d].decision = "accept"}
DraftRows(drs, s) == {d \in 1..Len(drs) : drs[d].suggestion_id = s}

\* C12: for a Suggestion whose classifier result carried a non-empty customer
\* or responder required-fields list, a step records an 'accept' Decision or
\* generates a Draft only if the human's values for the customer-facing
\* fields have been entered and validated (provided_required_<id> is set).
C12_RequiredFieldsGateAccept ==
    [][\A s \in 1..Len(suggestions) :
          (/\ CarriedRequiredFields(suggestions[s])
           /\ \/ AcceptedRows(decisions', s) # AcceptedRows(decisions, s)
              \/ DraftRows(drafts', s) # DraftRows(drafts, s))
              => s \in provided_required']_vars

\* C3: a Suggestion is persisted only when the message has none or the new
\* confidence strictly exceeds the latest one, so the confidences of a
\* message's Suggestions are strictly increasing in creation order.
C3_ConfidencesStrictlyIncrease ==
    \A i \in 1..Len(suggestions) : \A j \in 1..Len(suggestions) :
        (i < j /\ suggestions[i].message_id = suggestions[j].message_id)
            => suggestions[i].confidence < suggestions[j].confidence

\* C4: no Suggestion row with confidence 0.0 or lower is ever persisted.
C4_NoZeroConfidenceRow ==
    \A i \in 1..Len(suggestions) : suggestions[i].confidence > 0

\* C17: every persisted Suggestion has a confidence in [0,1] (0..100
\* hundredths), whatever value the provider reports.
C17_ConfidenceWithinUnitInterval ==
    \A i \in 1..Len(suggestions) :
        suggestions[i].confidence >= 0 /\ suggestions[i].confidence <= 100

\* at most one Thread per (subject, sender, recipient) and at most one
\* Message per (thread_id, body)
\* C18: the required-fields payload stored with a Suggestion by
\* process_email_threads is JSON text, and the Threads view parses it back
\* to the customer and responder lists that were stored.
C18_RequiredFieldsRoundTrip ==
    \A i \in 1..Len(suggestions) :
        LET rf == suggestions[i].required_fields IN
        rf.fmt # "null" =>
            /\ rf.fmt = "json"
            /\ ParseRequiredFields(rf) =
                   [customer |-> rf.customer, responder |-> rf.responder]

\* C19: a Draft's status is always 'draft' or 'sent'; a Draft row is created
\* with status 'draft' (the inline send creates it so and marks it sent in
\* the same handler); and a Draft that is 'sent' stays 'sent' on every step.
C19_DraftStatusOnlyMovesToSent ==
    [][/\ \A i \in 1..Len(drafts') : drafts'[i].status \in {"draft", "sent"}
       /\ \A i \in 1..Len(drafts) :
              drafts[i].status = "sent" =>
                  i <= Len(drafts') /\ drafts'[i].status = "sent"
       /\ Len(drafts') # Len(drafts) =>
              LET n == Len(drafts) + 1
                  created == Append(drafts,
                                 [drafts'[n] EXCEPT !.status = "draft", !.sent_at = 0])
              IN  /\ Len(drafts') = n
                  /\ \/ drafts' = created
                     \/ drafts' = mark_draft_sent(created, n, now')]_vars

\* a draft that was sent by one session and sent again by another
C19_Witness ==
    /\ Len(drafts) = 1
    /\ drafts[1].status = "sent"
    /\ drafts[1].sent_at = 2

\* C20: when a Suggestion has an 'accept' and an 'override:<text>' Decision,
\* the one committed last decides: once another session's override is
\* committed after the accept, has_accepted_decision_for_message is false
\* for the message.
C20_LastConflictingDecisionWins ==
    \A m \in 1..Len(messages) :
        LET sug == get_latest_suggestion_for_message(suggestions, m)
            overridden == record_user_decision(decisions, sug, "demo_user",
                                               "override:call")
        IN  (sug # 0 /\ has_accepted_decision_for_suggestion(decisions, sug)) =>
                ~has_accepted_decision_for_message(suggestions, overridden, m)

\* C22: Suggestions and Decisions are append-only: every step of the
\* application (upload, accept, override, re-evaluation, draft creation and
\* sending) leaves each existing Suggestion and Decision row as it was.
C22_HistoryIsAppendOnly ==
    [][/\ Len(suggestions') >= Len(suggestions)
       /\ \A i \in 1..Len(suggestions) : suggestions'[i] = suggestions[i]
       /\ Len(decisions') >= Len(decisions)
       /\ \A i \in 1..Len(decisions) : decisions'[i] = decisions[i]]_vars

\* a message re-evaluated into a second suggestion after its first one was
\* accepted and its draft sent
C22_Witness ==
    /\ Len(suggestions) = 2
    /\ suggestions[1].message_id = suggestions[2].message_id
    /\ Len(decisions) = 1
    /\ decisions[1].suggestion_id = 1
    /\ \E d \in 1..Len(drafts) : drafts[d].status = "sent"

\* what the ingestion loop read from the classifier for a stored row
\* (raw_response is written by ingestion from the same result)
IngestedRows == {i \in 1..Len(suggestions) : suggestions[i].raw_response.kind # "none"}
ClassifierIntent(i) ==
    IF suggestions[i].raw_response.kind = "json"
    THEN suggestions[i].raw_response.intent ELSE "unknown"
ClassifierConfidence(i) ==
    IF suggestions[i].raw_response.kind = "json"
    THEN suggestions[i].raw_response.confidence ELSE 0
ClassifierAction(i) ==
    IF suggestions[i].raw_response.kind = "json"
    THEN suggestions[i].raw_response.suggested_action ELSE NoneVal
NoUsableAction(i) == ClassifierAction(i) \in {NoneVal, "", " ", "no-action"}
RowTriple(i) ==
    <<suggestions[i].intent, suggestions[i].confidence, suggestions[i].suggested_action>>

\* C23: when the classifier's suggested_action is a non-blank string other
\* than 'no-action', the row stored by ingestion carries that action with the
\* classifier's intent and confidence, whatever the intent and confidence.
C23_ClassifierActionUsedVerbatim ==
    \A i \in IngestedRows :
        ~NoUsableAction(i) =>
            RowTriple(i) = <<ClassifierIntent(i), ClassifierConfidence(i),
                             ClassifierAction(i)>>

\* a usable action stored although the intent is unknown and the confidence 0
C23_Witness ==
    \E i \in IngestedRows :
        /\ suggestions[i].raw_response.intent = "unknown"
        /\ suggestions[i].raw_response.confidence = 0
        /\ suggestions[i].suggested_action = "ask_for_details"
        /\ messages[suggestions[i].message_id].body = B_pricing

\* C24: with no usable action and intent 'unknown' or confidence below 0.6,
\* the stored row is the Rule Engine's triple exactly when the rule's
\* confidence is strictly greater than the classifier's; otherwise it is the
\* classifier's intent and confidence with 'no-action'.
C24_RuleAdoptedOnlyWhenStrictlyMoreConfident ==
    \A i \in IngestedRows :
        (NoUsableAction(i)
            /\ (ClassifierIntent(i) = "unknown" \/ ClassifierConfidence(i) < 60)) =>
            LET r == rule_based_intent_and_action(messages[suggestions[i].message_id].body)
            IN  IF r[2] > ClassifierConfidence(i)
                THEN RowTriple(i) = r
                ELSE RowTriple(i) = <<ClassifierIntent(i), ClassifierConfidence(i),
                                      "no-action">>

\* the rule's triple adopted over an 'escalation' result at 0.59
C24_Witness ==
    \E i \in IngestedRows :
        /\ suggestions[i].raw_response.intent = "escalation"
        /\ suggestions[i].raw_response.confidence = 59
        /\ RowTriple(i) = <<"interested", 75, "send_pricing">>

\* C25: with no usable action, a known intent and confidence at least 0.6,
\* the stored row keeps the classifier's intent and confidence and takes its
\* action from the fixed table, 'no-action' for an intent the table lacks.
C25_KnownIntentMappedByTable ==
    \A i \in IngestedRows :
        (NoUsableAction(i) /\ ClassifierIntent(i) # "unknown"
            /\ ClassifierConfidence(i) >= 60) =>
            LET intent == ClassifierIntent(i) IN
            RowTriple(i) =
                <<intent, ClassifierConfidence(i),
                  CASE intent = "interested" -> "send_pricing"
                    [] intent = "not_interested" -> "close_thread"
                    [] intent = "cancel_request" -> "start_cancellation_flow"
                    [] intent = "cancel_booking_and_request_refund" ->
                          "start_cancellation_flow"
                    [] intent = "escalation" -> "escalate_to_manager"
                    [] intent = "request_escalation_to_manager" -> "escalate_to_manager"
                    [] intent = "request_group_availability_and_rates" ->
                          "send_group_rates"
                    [] intent = "group_availability" -> "send_group_rates"
                    [] OTHER -> "no-action">>

\* a table intent at exactly 0.6 on a body the rule would rate higher
C25_Witness ==
    \E i \in IngestedRows :
        /\ RowTriple(i) = <<"group_availability", 60, "send_group_rates">>
        /\ messages[suggestions[i].message_id].body = B_pricing

\* C26: whatever the store holds and whatever the classifier answers, either
\* Re-evaluate button, for each message of its thread that has no accepted
\* Decision and whose newly computed confidence is above 0.0 and above that
\* of its latest Suggestion (or that has none), ends without an unhandled
\* error and adds one Suggestion row for that message.
ReevalDue(ids, ais, k) ==
    LET latest == get_latest_suggestion_for_message(suggestions, ids[k])
        r == ReevalResolve(ais[k], messages[ids[k]].body)
    IN  /\ ~has_accepted_decision_for_message(suggestions, decisions, ids[k])
        /\ r.confidence > 0
        /\ latest = 0 \/ r.confidence > suggestions[latest].confidence

C26_ReevaluationPersistsImprovedSuggestion ==
    \A t \in 1..Len(threads) :
        LET ids == list_messages_for_thread(messages, t) IN
        \A ais \in [1..Len(ids) -> ClassifierResults] :
            LET button == ReevalMessages(suggestions, messages, ids, 1, ais)
                thread == ReevalThread(suggestions, messages, ids, ais)
            IN  \A k \in 1..Len(ids) :
                    ReevalDue(ids, ais, k) =>
                        /\ Cardinality(SuggestionsOf(button, ids[k]))
                              = Cardinality(SuggestionsOf(suggestions, ids[k])) + 1
                        /\ ~thread.raised
                        /\ Cardinality(SuggestionsOf(thread.suggestions, ids[k]))
                              = Cardinality(SuggestionsOf(suggestions, ids[k])) + 1

\* C27: whatever the store holds, when an upload of a document is killed
\* after any of its commits and the same document is then uploaded to
\* completion, the Thread and Message tables are those an uninterrupted
\* upload would have produced, and every message of the document without an
\* accepted Decision has at least one Suggestion.
MessagesOfDoc(ths, msgs, doc) ==
    {m \in 1..Len(msgs) :
        \E i \in 1..Len(DocThreads(doc)) :
            LET t == DocThreads(doc)[i] IN
            /\ msgs[m].thread_id = get_thread_by_keys(ths, t.subject, t.sender, t.recipient)
            /\ \E j \in 1..Len(t.messages) : t.messages[j].body = msgs[m].body}

C27_ReingestionCompletesInterruptedUpload ==
    \A doc \in Docs :
        \A ais \in [1..CountMessages(DocThreads(doc), 1) -> FailureAnswers] :
            LET db == Db(threads, messages, suggestions)
                full == process_email_threads(db, decisions, doc, ais,
                                              NoFailures(Len(ais)))
            IN  \A n \in 1..Len(full.commits) :
                \A retry \in [1..Len(ais) -> FailureAnswers] :
                    LET left == InterruptedAfter(db, full, n)
                        again == process_email_threads(left, decisions, doc, retry,
                                                       NoFailures(Len(ais)))
                    IN  /\ again.threads = full.threads
                        /\ again.messages = full.messages
                        /\ \A m \in MessagesOfDoc(again.threads, again.messages, doc) :
                              \/ has_accepted_decision_for_message(again.suggestions,
                                                                   decisions, m)
                              \/ SuggestionsOf(again.suggestions, m) # {}

\* an upload of ST.json killed after the second message row was committed
\* and before its suggestion was
C27_Witness ==
    /\ crashed
    /\ Len(threads) = 1
    /\ Len(messages) = 2
    /\ Len(suggestions) = 1
    /\ SuggestionsOf(suggestions, 2) = {}

\* C28: for every message, at most one Draft linked to it is in status
\* 'sent', whatever sequence of Accept, inline Send and Drafts-view Send ran.
SentDraftsOf(m) ==
    {d \in 1..Len(drafts) : drafts[d].message_id = m /\ drafts[d].status = "sent"}

C28_AtMostOneSentDraftPerMessage ==
    \A m \in 1..Len(messages) : Cardinality(SentDraftsOf(m)) <= 1

\* C30: under every interleaving of two process_email_threads runs on the
\* same document in two sessions, the store holds at most one Thread row per
\* (subject, sender, recipient) and at most one Message row per
\* (thread_id, body).
C30_ConcurrentIngestionKeepsKeysUnique ==
    /\ \A i, j \in 1..Len(threads) :
          (/\ threads[i].subject = threads[j].subject
           /\ threads[i].sender = threads[j].sender
           /\ threads[i].recipient = threads[j].recipient) => i = j
    /\ \A i, j \in 1..Len(messages) :
          (/\ messages[i].thread_id = messages[j].thread_id
           /\ messages[i].body = messages[j].body) => i = j

UniqueKeys ==
    /\ \A i \in 1..Len(threads) : \A j \in 1..Len(threads) :
          (/\ threads[i].subject = threads[j].subject
           /\ threads[i].sender = threads[j].sender
           /\ threads[i].recipient = threads[j].recipient) => i = j
    /\ \A i \in 1..Len(messages) : \A j \in 1..Len(messages) :
          (/\ messages[i].thread_id = messages[j].thread_id
           /\ messages[i].body = messages[j].body) => i = j

\* every thread and message of the document has a row
DocPresent(doc, ths, msgs) ==
    \A t \in 1..Len(DocThreads(doc)) :
        /\ ThreadRowOf(ths, DocThreads(doc)[t]) # 0
        /\ \A i \in 1..Len(DocThreads(doc)[t].messages) :
              MessageRowOf(ths, msgs, DocThreads(doc)[t],
                           DocThreads(doc)[t].messages[i]) # 0

\* C5: an upload leaves a row for every thread and message of the document
\* and never two rows with the same key; uploading a document whose threads
\* and messages are all stored already (a second ingestion) leaves the
\* Thread and Message tables exactly as they were.
C5_ReingestKeepsThreadsAndMessages ==
    [][last_upload' # NoUpload =>
        /\ UniqueKeys'
        /\ DocPresent(DocNamed(last_upload'), threads', messages')
        /\ DocPresent(DocNamed(last_upload'), threads, messages)
              => (threads' = threads /\ messages' = messages)]_vars

\* S.json has been uploaded a second time: one thread, one message, and a
\* second Suggestion row for it
C5_Witness ==
    /\ last_upload = "S.json"
    /\ Len(threads) = 1
    /\ Len(messages) = 1
    /\ Len(suggestions) = 2

\* C6: once a Draft is 'sent', a further mark_draft_sent leaves its sent_at
\* unchanged.
C6_SentAtWrittenOnce ==
    [][\A d \in 1..Len(drafts) :
          drafts[d].status = "sent" => drafts'[d].sent_at = drafts[d].sent_at]_vars

\* the classifier failed: it raised, or returned the safe default
FailedClassifier == {Raised, Returned(SafeDefault)}

\* C7: whatever the store holds, when the classifier fails and the Rule
\* Engine matches the body, ingesting an unseen thread with one message adds
\* exactly one Thread, one Message and one Suggestion, and the Suggestion
\* carries the Rule Engine's (intent, confidence, action), which is
\* ("interested", 0.75, "send_pricing") for "Can you share pricing?".
C7_RuleFallbackOnClassifierFailure ==
    \A b \in Bodies : \A ai \in FailedClassifier :
        LET db == process_email_threads(Db(threads, messages, suggestions),
                                        decisions, FreshDoc(b), <<ai>>, NoFailures(1))
            sug == db.suggestions[Len(db.suggestions)]
        IN  RuleReference(b) # <<"unknown", 0, "no-action">> =>
              /\ Len(db.threads) = Len(threads) + 1
              /\ Len(db.messages) = Len(messages) + 1
              /\ Len(db.suggestions) = Len(suggestions) + 1
              /\ db.messages[Len(db.messages)].thread_id = Len(db.threads)
              /\ sug.message_id = Len(db.messages)
              /\ <<sug.intent, sug.confidence, sug.suggested_action>> = RuleReference(b)
              /\ b = B_pricing =>
                    <<sug.intent, sug.confidence, sug.suggested_action>>
                        = <<"interested", 75, "send_pricing">>

\* the end-to-end scenario has run: S.json uploaded into the empty store
\* with a failing classifier
C7_Witness ==
    /\ last_upload = "S.json"
    /\ Len(threads) = 1
    /\ Len(messages) = 1
    /\ messages[1].body = B_pricing
    /\ Len(suggestions) = 1
    /\ suggestions[1].message_id = 1
    /\ suggestions[1].intent = "interested"
    /\ suggestions[1].confidence = 75
    /\ suggestions[1].suggested_action = "send_pricing"

\* the positions 1..n of the messages of an upload, thread after thread
PositionOf(ths, t, i) == CountMessages(ths, 1) - CountMessages(ths, t) + i

\* the upload without the messages at the positions F, and the classifier
\* answers of the messages that remain
KeptOf(ths, t, F) ==
    SelectSeq([i \in 1..Len(ths[t].messages) |-> i],
              LAMBDA i : PositionOf(ths, t, i) \notin F)
WithoutMessages(doc, F) ==
    [doc EXCEPT !.threads =
        [t \in 1..Len(doc.threads) |->
            [doc.threads[t] EXCEPT !.messages =
                [k \in 1..Len(KeptOf(doc.threads, t, F)) |->
                    doc.threads[t].messages[KeptOf(doc.threads, t, F)[k]]]]]]
WithoutAnswers(ais, F) ==
    LET kept == SelectSeq([i \in 1..Len(ais) |-> i], LAMBDA i : i \notin F)
    IN  [k \in 1..Len(kept) |-> ais[kept[k]]]

\* what an ingestion did for the message object m of thread object t: its
\* Message row, the Suggestion rows of that message (in creation order,
\* without the row id they point to) and whether it was skipped
MessageOutcome(db, t, m) ==
    LET mid == MessageRowOf(db.threads, db.messages, t, m)
        rows == SelectSeq(db.suggestions, LAMBDA r : r.message_id = mid)
    IN  [stored |-> mid # 0,
         row |-> IF mid = 0 THEN <<>> ELSE <<db.messages[mid]>>,
         suggestions |-> [k \in 1..Len(rows) |-> [rows[k] EXCEPT !.message_id = 0]],
         skipped |-> mid \in db.skipped]

\* an upload of two threads with one message each
Doc_UV == [name |-> "UV.json", kind |-> "list",
           threads |-> <<ThreadObj("U", <<MessageObj(B_pricing)>>),
                         ThreadObj("V", <<MessageObj(B_nothanks)>>)>>]
FailureDocs == {Doc_ST, Doc_UV}

\* what an upload can be instead of an array or {"threads": [...]}: not
\* readable, not JSON ("malformed"), a JSON scalar, an object without
\* 'threads', an object whose 'threads' is not an array
MalformedKinds == {"unreadable", "malformed", "scalar", "object", "threads_not_list"}

\* C14: when the uploaded document cannot be read or parsed as JSON, or is
\* neither an array nor an object whose 'threads' holds an array,
\* process_email_threads returns the empty list and leaves the tables
\* threads, messages, suggestions, decisions and drafts unchanged.
C14_MalformedUploadWritesNothing ==
    [][(/\ last_upload' # NoUpload
        /\ DocNamed(last_upload').kind \in MalformedKinds) =>
          /\ storeVars' = storeVars
          /\ \A k \in MalformedKinds :
                LET doc == [DocNamed(last_upload') EXCEPT !.kind = k]
                    n == CountMessages(doc.threads, 1)
                    db == process_email_threads(Db(threads, messages, suggestions),
                                                decisions, doc,
                                                [i \in 1..n |-> Raised], NoFailures(n))
                IN  /\ db.saved = <<>>
                    /\ db.threads = threads
                    /\ db.messages = messages
                    /\ db.suggestions = suggestions]_vars

\* obj.json, an object without 'threads', has been uploaded into a store
\* that holds threads, messages and suggestions
C14_Witness ==
    /\ last_upload = "obj.json"
    /\ Len(threads) > 0
    /\ Len(messages) > 0
    /\ Len(suggestions) > 0

====
